---------------------------- MODULE Spec2Model ----------------------------
(* gmap: the commit walker, the diff-stats computer, the sqlite cache and   *)
(* the fetch orchestrator, as a state machine over a git repository and a  *)
(* cache file.                                                             *)
EXTENDS Integers, Sequences, FiniteSets, TLC

VARIABLES
    commits,       \* repository: commit id -> [timestamp, parent_ids, changes]
    head,          \* repository: the commit HEAD peels to
    has_tables,    \* cache file: whether the tables and indexes exist
    user_version,  \* cache file: PRAGMA user_version
    commit_rows,   \* cache file: table commits, id -> row
    file_rows,     \* cache file: table files, commit_id -> rows in insertion order
    last           \* the last operation: its arguments and what it returned

vars == <<commits, head, has_tables, user_version, commit_rows, file_rows, last>>

repoVars == <<commits, head>>
cacheVars == <<has_tables, user_version, commit_rows, file_rows>>

-----------------------------------------------------------------------------
(* Bounds                                                                  *)

\* the most commits a repository grows to
MaxCommits == 2

\* the same, where only the commit walk is run
MaxWalkCommits == 4

\* the most CommitStats in one batch given to store_commit_stats
MaxBatch == 2

\* the most lines of a text given to compute_line_diff
MaxLines == 5

\* the most commits in the cache, and the most ids in one call of
\* get_missing_commits, where the queries of the cache are run
MaxStored == 2

\* commit times, in seconds since the epoch
Timestamps == {1, 2}

\* Option<T>: None is <<>>, Some(x) is <<x>>
None == <<>>
Some(x) == <<x>>
IsSome(o) == o # <<>>
Unwrap(o) == o[1]

-----------------------------------------------------------------------------
(* model.rs                                                                *)

SCHEMA_VERSION == 1

\* DateTime<Utc> values are instants counted in half seconds; a commit time
\* of s seconds is the instant 2*s, and DateTime::timestamp() is the floor.
FromSecs(s) == 2 * s
TimestampOf(instant) == instant \div 2

DateRange(since, until) == [since |-> since, until |-> until]

\* a range that leaves out its two bounds
ContainsExclusive(range, t) ==
    IF IsSome(range.since) /\ t <= Unwrap(range.since) THEN FALSE
    ELSE IF IsSome(range.until) /\ t >= Unwrap(range.until) THEN FALSE
    ELSE TRUE

\* DateRange::contains
Contains(range, t) ==
    IF IsSome(range.since) /\ t < Unwrap(range.since) THEN FALSE
    ELSE IF IsSome(range.until) /\ t > Unwrap(range.until) THEN FALSE
    ELSE TRUE

FullRange == DateRange(None, None)

\* the ranges a command line resolves to: unbounded, since 1.5 s, since 2 s
Ranges == {FullRange, DateRange(Some(3), None), DateRange(Some(4), None)}

\* the instants 1 s, 1.5 s and 2 s
Instants == {2, 3, 4}

\* every range resolve_range returns over these instants: each bound absent
\* or an instant, since not after until
AllRanges ==
    {r \in {DateRange(s, u) : s, u \in {None} \cup {Some(t) : t \in Instants}} :
        ~(IsSome(r.since) /\ IsSome(r.until) /\ Unwrap(r.since) > Unwrap(r.until))}

FileStats(path, added, deleted, is_binary) ==
    [path |-> path, added_lines |-> added, deleted_lines |-> deleted,
     is_binary |-> is_binary]

CommitStats(id, files) == [commit_id |-> id, files |-> files]

CommitInfo(id, timestamp, parent_ids) ==
    [id |-> id, timestamp |-> timestamp, parent_ids |-> parent_ids]

-----------------------------------------------------------------------------
(* git/repo.rs: blobs and the line diff                                    *)

\* a blob: the index of its first NUL byte, if it has one, and the lines of
\* its text
BlobOf(first_nul, lines) == [first_nul |-> first_nul, lines |-> lines]

\* a blob whose first byte is NUL, or one without a NUL byte
Blob(binary, lines) == BlobOf(IF binary THEN Some(0) ELSE None, lines)

\* `take(8192)`
BinaryScanLen == 8192

\* a scan of the whole blob
IsBinaryObjectWholeBlob(obj) == IsSome(obj.first_nul)

\* is_binary_object: one of the first BinaryScanLen bytes is NUL
IsBinaryObject(obj) ==
    IsSome(obj.first_nul) /\ Unwrap(obj.first_nul) < BinaryScanLen

\* a window of four lines
LookAheadMaxWider == 3 + 1

LookAheadMax == 3

\* a look-ahead that tries every deletion before any insertion
LookAheadDeletionsFirst(old, new, oi, ni, k) ==
    LET dels == {j \in k..LookAheadMax :
                    oi + j < Len(old) /\ old[oi + j + 1] = new[ni + 1]}
        adds == {j \in k..LookAheadMax :
                    ni + j < Len(new) /\ old[oi + 1] = new[ni + j + 1]}
    IN  IF dels # {} THEN <<"del", CHOOSE j \in dels : \A i \in dels : j <= i>>
        ELSE IF adds # {}
        THEN <<"add", CHOOSE j \in adds : \A i \in adds : j <= i>>
        ELSE <<"none", 0>>

\* compute_line_diff, the look-ahead loop `for look_ahead in 1..=3`:
\* <<"del", k>>, <<"add", k>> or <<"none", 0>>; oi and ni are 0-based
RECURSIVE LookAhead(_, _, _, _, _)
LookAhead(old, new, oi, ni, k) ==
    IF k > LookAheadMax THEN <<"none", 0>>
    ELSE IF oi + k < Len(old) /\ old[oi + k + 1] = new[ni + 1] THEN <<"del", k>>
    ELSE IF ni + k < Len(new) /\ old[oi + 1] = new[ni + k + 1] THEN <<"add", k>>
    ELSE LookAhead(old, new, oi, ni, k + 1)

\* the locals of compute_line_diff: the cursors and the counts, whether
\* the loop has ended, and what its last iteration did (step, and the
\* distance k of a look-ahead match)
DiffState(oi, ni, added, deleted) ==
    [oi |-> oi, ni |-> ni, added |-> added, deleted |-> deleted,
     done |-> FALSE, step |-> "start", k |-> 0]

\* a match that moves the cursor by one line
SkipOneLine(n, look_ahead) == n + 1

\* `deleted += look_ahead; oi += look_ahead` and the same for an insertion
SkipLines(n, look_ahead) == n + look_ahead

\* equal lines counted as a substitution
UnchangedCounted(d) ==
    [d EXCEPT !.oi = @ + 1, !.ni = @ + 1, !.added = @ + 1, !.deleted = @ + 1,
              !.step = "same", !.k = 0]

\* `oi += 1; ni += 1; continue` for equal lines
Unchanged(d) ==
    [d EXCEPT !.oi = @ + 1, !.ni = @ + 1, !.step = "same", !.k = 0]

\* an exhausted side that counts one line of the other
RemainingOne(lines, cursor) == 1

\* `new_lines.len() - ni`, `old_lines.len() - oi`
Remaining(lines, cursor) == Len(lines) - cursor

\* compute_line_diff, one evaluation of the loop condition and, when it
\* holds, one iteration of the while loop
LineDiffStep(old, new, d) ==
    IF ~(d.oi < Len(old) \/ d.ni < Len(new))
    THEN [d EXCEPT !.done = TRUE, !.step = "end", !.k = 0]
    ELSE IF d.oi >= Len(old)
    THEN [d EXCEPT !.added = @ + Remaining(new, d.ni), !.done = TRUE,
                   !.step = "rest_added", !.k = 0]
    ELSE IF d.ni >= Len(new)
    THEN [d EXCEPT !.deleted = @ + Remaining(old, d.oi), !.done = TRUE,
                   !.step = "rest_deleted", !.k = 0]
    ELSE IF old[d.oi + 1] = new[d.ni + 1] THEN Unchanged(d)
    ELSE LET f == LookAhead(old, new, d.oi, d.ni, 1) IN
         IF f[1] = "del"
         THEN [d EXCEPT !.deleted = SkipLines(@, f[2]),
                        !.oi = SkipLines(@, f[2]),
                        !.step = "del", !.k = f[2]]
         ELSE IF f[1] = "add"
         THEN [d EXCEPT !.added = SkipLines(@, f[2]),
                        !.ni = SkipLines(@, f[2]),
                        !.step = "add", !.k = f[2]]
         ELSE [d EXCEPT !.deleted = @ + 1, !.added = @ + 1,
                        !.oi = @ + 1, !.ni = @ + 1,
                        !.step = "subst", !.k = 0]

\* compute_line_diff, the while loop; returns <<added, deleted>>
RECURSIVE LineDiffLoop(_, _, _, _, _, _)
LineDiffLoop(old, new, oi, ni, added, deleted) ==
    LET d == LineDiffStep(old, new, DiffState(oi, ni, added, deleted)) IN
    IF d.done THEN <<d.added, d.deleted>>
    ELSE LineDiffLoop(old, new, d.oi, d.ni, d.added, d.deleted)

ComputeLineDiff(old_object, new_object) ==
    LineDiffLoop(old_object.lines, new_object.lines, 0, 0, 0, 0)

\* inspect_object: <<is_binary, lines>>
InspectObject(obj) ==
    <<IsBinaryObject(obj), IF IsBinaryObject(obj) THEN 0 ELSE Len(obj.lines)>>

-----------------------------------------------------------------------------
(* git/repo.rs: one change of a tree diff -> file stats                    *)

Addition(location, obj) ==
    [kind |-> "Addition", location |-> location, source_location |-> location,
     previous |-> obj, obj |-> obj, copy |-> FALSE]
Deletion(location, obj) ==
    [kind |-> "Deletion", location |-> location, source_location |-> location,
     previous |-> obj, obj |-> obj, copy |-> FALSE]
Modification(location, previous, obj) ==
    [kind |-> "Modification", location |-> location, source_location |-> location,
     previous |-> previous, obj |-> obj, copy |-> FALSE]
Rewrite(source_location, location, source, obj, copy) ==
    [kind |-> "Rewrite", location |-> location, source_location |-> source_location,
     previous |-> source, obj |-> obj, copy |-> copy]

\* an entry with the two counts exchanged
ModificationStatsSwapped(change, d, is_binary) ==
    <<FileStats(change.location, d[2], d[1], is_binary)>>

\* the entry pushed for a Modification; d is <<added, deleted>>
ModificationStats(change, d, is_binary) ==
    <<FileStats(change.location, d[1], d[2], is_binary)>>

\* entries that give the deleted lines to the source and the added lines
\* to the destination, copy or not
RewriteStatsBothSides(change, d, is_binary) ==
    <<FileStats(change.source_location, 0, d[2], is_binary),
      FileStats(change.location, d[1], 0, is_binary)>>

\* the two entries pushed for a Rewrite; d is <<added, deleted>>
RewriteStats(change, d, is_binary) ==
    <<FileStats(change.source_location, 0,
                IF change.copy THEN 0 ELSE d[2], is_binary),
      FileStats(change.location,
                IF change.copy THEN d[1] ELSE 0, 0, is_binary)>>

\* handle_change: the entries one change pushes onto `files`
HandleChange(change, binary) ==
    IF change.kind = "Addition" THEN
        LET i == InspectObject(change.obj) IN
        IF binary \/ ~i[1]
        THEN <<FileStats(change.location, IF i[1] THEN 0 ELSE i[2], 0, i[1])>>
        ELSE <<>>
    ELSE IF change.kind = "Deletion" THEN
        LET i == InspectObject(change.obj) IN
        IF binary \/ ~i[1]
        THEN <<FileStats(change.location, 0, IF i[1] THEN 0 ELSE i[2], i[1])>>
        ELSE <<>>
    ELSE
        LET is_binary == InspectObject(change.previous)[1]
                            \/ InspectObject(change.obj)[1]
            d == IF is_binary THEN <<0, 0>>
                 ELSE ComputeLineDiff(change.previous, change.obj)
        IN
        IF ~(binary \/ ~is_binary) THEN <<>>
        ELSE IF change.kind = "Modification"
        THEN ModificationStats(change, d, is_binary)
        ELSE RewriteStats(change, d, is_binary)

RECURSIVE HandleChanges(_, _)
HandleChanges(changes, binary) ==
    IF changes = <<>> THEN <<>>
    ELSE HandleChange(Head(changes), binary) \o HandleChanges(Tail(changes), binary)

\* the tree diffs a commit can have against its first parent
TextX == Blob(FALSE, <<"x">>)
TextXY == Blob(FALSE, <<"x", "y">>)
Binary == Blob(TRUE, <<>>)

\* one text file added
ChangesPlain == <<Addition("a", TextX)>>
\* a file modified and copied in the same commit, and a binary file added
ChangesCopy == <<Modification("a", TextX, TextXY),
                 Rewrite("a", "b", TextX, TextXY, TRUE),
                 Addition("c", Binary)>>

ChangeLists == {ChangesPlain, ChangesCopy}

-----------------------------------------------------------------------------
(* git/repo.rs: the commit walk                                            *)

\* `for pid in &parents { stack.push_back(*pid) }` after an included commit
PushParents(stack, parents) == stack \o parents

\* a walk that stops at a skipped commit
PushParentsOfSkippedNever(stack, parents) == stack

\* the same loop in the two branches that skip a commit
PushParentsOfSkipped(stack, parents) == stack \o parents

\* `!range.contains(&timestamp)`
OutOfRange(range, timestamp) == ~Contains(range, timestamp)

\* a walk that never skips a merge
SkippedMergeNever(include_merges, parents) == FALSE

\* a walk that skips the merges when they are asked for
SkippedMergeInverted(include_merges, parents) ==
    include_merges /\ Len(parents) > 1

\* `!include_merges && parents.len() > 1`
SkippedMerge(include_merges, parents) == ~include_merges /\ Len(parents) > 1

\* a pop that leaves the id on the stack
PopBackKept(stack) == stack

\* `stack.pop_back()`: the stack without its last id
PopBack(stack) == SubSeq(stack, 1, Len(stack) - 1)

\* a walk that takes every popped id for a new one
AlreadySeenNever(seen, commit_id) == FALSE

\* `!seen.insert(commit_id)`
AlreadySeen(seen, commit_id) == commit_id \in seen

\* the `while let Some(commit_id) = stack.pop_back()` loop of collect_commits;
\* `out` is the list of the ids of the commits pushed onto `commits`
RECURSIVE WalkLoop(_, _, _, _, _)
WalkLoop(stack, seen, out, range, include_merges) ==
    IF stack = <<>> THEN out
    ELSE
        LET commit_id == stack[Len(stack)]
            rest == PopBack(stack)
        IN
        IF AlreadySeen(seen, commit_id)
        THEN WalkLoop(rest, seen, out, range, include_merges)
        ELSE
            LET meta == commits[commit_id]
                timestamp == FromSecs(meta.timestamp)
                parents == meta.parent_ids
                seen1 == seen \cup {commit_id}
            IN
            IF OutOfRange(range, timestamp)
            THEN WalkLoop(PushParentsOfSkipped(rest, parents), seen1, out,
                          range, include_merges)
            ELSE IF SkippedMerge(include_merges, parents)
            THEN WalkLoop(PushParentsOfSkipped(rest, parents), seen1, out,
                          range, include_merges)
            ELSE WalkLoop(PushParents(rest, parents), seen1,
                          Append(out, commit_id), range, include_merges)

\* compute_commit_stats: the tree diff against the first parent, resolved
ComputeCommitStats(commit_id, binary) ==
    CommitStats(commit_id, HandleChanges(commits[commit_id].changes, binary))

\* collect_commits: the stats of the included commits, in walk order
CollectCommits(range, include_merges, binary) ==
    LET ids == WalkLoop(<<head>>, {}, <<>>, range, include_merges) IN
    [i \in 1..Len(ids) |-> ComputeCommitStats(ids[i], binary)]

\* GitRepo::get_commit_info
RepoGetCommitInfo(commit_id) ==
    CommitInfo(commit_id, FromSecs(commits[commit_id].timestamp),
               commits[commit_id].parent_ids)

\* list_commit_ids: the walk of collect_commits, yielding the ids only
ListCommitIds(range, include_merges) ==
    WalkLoop(<<head>>, {}, <<>>, range, include_merges)

\* compute_commit_stats_for: the diff path of the walk for one commit
ComputeCommitStatsFor(oid, binary) == ComputeCommitStats(oid, binary)

-----------------------------------------------------------------------------
(* cache.rs                                                                *)

\* the row of table commits written for a CommitInfo
CommitRow(info) ==
    [id |-> info.id, timestamp |-> TimestampOf(info.timestamp),
     parent_ids |-> info.parent_ids]

\* table files: file_rows maps a commit id that has rows to its rows
NoFiles == <<>>
FilesOf(fr, commit_id) == IF commit_id \in DOMAIN fr THEN fr[commit_id] ELSE <<>>

RECURSIVE SortedIds(_)
SortedIds(S) ==
    IF S = {} THEN <<>>
    ELSE LET m == CHOOSE x \in S : \A y \in S : x <= y
         IN <<m>> \o SortedIds(S \ {m})

\* the WHERE clause of get_commit_stats
RowInRange(range, row) ==
    /\ IsSome(range.since) => row.timestamp >= TimestampOf(Unwrap(range.since))
    /\ IsSome(range.until) => row.timestamp <= TimestampOf(Unwrap(range.until))

\* `ORDER BY c.timestamp`: the commits S by timestamp, equal ones by id
RECURSIVE RowOrder(_, _)
RowOrder(cr, S) ==
    IF S = {} THEN <<>>
    ELSE LET m == CHOOSE x \in S : \A y \in S :
                     \/ cr[x].timestamp < cr[y].timestamp
                     \/ cr[x].timestamp = cr[y].timestamp /\ x <= y
         IN <<m>> \o RowOrder(cr, S \ {m})

\* the rows of commits LEFT JOIN files for the commits of `order`: one row
\* per file row, and one row of NULLs for a commit that has no file row
RECURSIVE JoinRows(_, _)
JoinRows(fr, order) ==
    IF order = <<>> THEN <<>>
    ELSE LET c == Head(order)
             fs == FilesOf(fr, c)
         IN (IF fs = <<>> THEN <<[commit_id |-> c, file |-> None]>>
             ELSE [i \in 1..Len(fs) |-> [commit_id |-> c, file |-> Some(fs[i])]])
            \o JoinRows(fr, Tail(order))

\* what the row closure returns: the commit id and a list of one file, or
\* of none for a row of NULLs
RowFiles(row) == IF IsSome(row.file) THEN <<Unwrap(row.file)>> ELSE <<>>

\* a map in which the files of a row replace those of the rows before it
RECURSIVE CommitsMapInsert(_)
CommitsMapInsert(rows) ==
    IF rows = <<>> THEN <<>>
    ELSE LET m == CommitsMapInsert(SubSeq(rows, 1, Len(rows) - 1))
             row == rows[Len(rows)]
         IN (row.commit_id :> RowFiles(row)) @@ m

\* `commits_map.entry(commit_id).or_default().append(&mut files)` over the
\* rows: commit id -> the files of its rows
RECURSIVE CommitsMap(_)
CommitsMap(rows) ==
    IF rows = <<>> THEN <<>>
    ELSE LET m == CommitsMap(SubSeq(rows, 1, Len(rows) - 1))
             row == rows[Len(rows)]
             before == IF row.commit_id \in DOMAIN m THEN m[row.commit_id]
                       ELSE <<>>
         IN (row.commit_id :> (before \o RowFiles(row))) @@ m

\* a result left in the order the map yields it
SortByCommitIdNone(result) == result

\* `result.sort_by(|a, b| a.commit_id.cmp(&b.commit_id))`
RECURSIVE SortByCommitId(_)
SortByCommitId(result) ==
    IF result = <<>> THEN <<>>
    ELSE LET sorted == SortByCommitId(SubSeq(result, 1, Len(result) - 1))
             e == result[Len(result)]
             k == Cardinality({i \in DOMAIN sorted :
                                 sorted[i].commit_id <= e.commit_id})
         IN SubSeq(sorted, 1, k) \o <<e>> \o SubSeq(sorted, k + 1, Len(sorted))

\* Cache::get_commit_stats, given the order `iter` in which the HashMap
\* commits_map yields its entries (a list of its keys, any order)
GetCommitStatsIn(cr, fr, range, iter) ==
    LET order == RowOrder(cr, {c \in DOMAIN cr : RowInRange(range, cr[c])})
        commits_map == CommitsMap(JoinRows(fr, order))
    IN  SortByCommitId([i \in 1..Len(iter) |->
                           CommitStats(iter[i], commits_map[iter[i]])])

\* Cache::get_commit_stats where the map yields its entries in the order
\* of the rows
GetCommitStats(cr, fr, range) ==
    GetCommitStatsIn(cr, fr, range,
        RowOrder(cr, {c \in DOMAIN cr : RowInRange(range, cr[c])}))

\* Cache::get_commit_info
GetCommitInfo(cr, commit_id) ==
    IF commit_id \in DOMAIN cr
    THEN Some(CommitInfo(cr[commit_id].id, FromSecs(cr[commit_id].timestamp),
                         cr[commit_id].parent_ids))
    ELSE None

\* `SELECT id FROM commits WHERE id IN (...)`, collected into a HashSet
ExistingIn(cr, all_commit_ids) ==
    {id \in DOMAIN cr : \E i \in DOMAIN all_commit_ids : all_commit_ids[i] = id}

\* a filter that keeps the ids found
GetMissingCommitsInverted(cr, all_commit_ids) ==
    IF all_commit_ids = <<>> THEN <<>>
    ELSE SelectSeq(all_commit_ids,
                   LAMBDA id : id \in ExistingIn(cr, all_commit_ids))

\* Cache::get_missing_commits
GetMissingCommits(cr, all_commit_ids) ==
    IF all_commit_ids = <<>> THEN <<>>
    ELSE SelectSeq(all_commit_ids,
                   LAMBDA id : id \notin ExistingIn(cr, all_commit_ids))

\* a check that stamps any file it finds with the expected version
CheckSchemaVersionRestamp(uv) ==
    [ok |-> TRUE, user_version |-> SCHEMA_VERSION, at |-> "none"]

\* check_schema_version on a file stamped uv
CheckSchemaVersion(uv) ==
    IF uv = 0
    THEN [ok |-> TRUE, user_version |-> SCHEMA_VERSION, at |-> "none"]
    ELSE IF uv # SCHEMA_VERSION
    THEN [ok |-> FALSE, user_version |-> uv, at |-> "schema_mismatch"]
    ELSE [ok |-> TRUE, user_version |-> uv, at |-> "none"]

\* store_commit_stats runs its statements inside one transaction; st is the
\* connection's view in it: the two tables, the number of statements
\* executed so far and whether one has failed. The statement number fail_at
\* fails (0: none does).
TxBegin(cr, fr) == [cr |-> cr, fr |-> fr, n |-> 0, failed |-> FALSE]

\* INSERT OR REPLACE INTO commits
ExecInsertCommit(st, info, fail_at) ==
    IF st.n + 1 = fail_at THEN [st EXCEPT !.n = @ + 1, !.failed = TRUE]
    ELSE [st EXCEPT !.n = @ + 1,
                    !.cr = (info.id :> CommitRow(info)) @@ st.cr]

\* DELETE FROM files WHERE commit_id = ?
ExecDeleteFiles(st, commit_id, fail_at) ==
    IF st.n + 1 = fail_at THEN [st EXCEPT !.n = @ + 1, !.failed = TRUE]
    ELSE [st EXCEPT !.n = @ + 1,
                    !.fr = [c \in DOMAIN st.fr \ {commit_id} |-> st.fr[c]]]

\* INSERT INTO files; PRIMARY KEY (commit_id, path) rejects a second row
ExecInsertFile(st, commit_id, f, fail_at) ==
    IF \/ st.n + 1 = fail_at
       \/ \E i \in 1..Len(FilesOf(st.fr, commit_id)) :
             FilesOf(st.fr, commit_id)[i].path = f.path
    THEN [st EXCEPT !.n = @ + 1, !.failed = TRUE]
    ELSE [st EXCEPT !.n = @ + 1,
                    !.fr = (commit_id :> Append(FilesOf(st.fr, commit_id), f))
                               @@ st.fr]

\* a loop that inserts every entry of stats.files
FirstOfPathAlways(seen_paths, path) == TRUE

\* `if seen_paths.insert(&f.path)`
FirstOfPath(seen_paths, path) == path \notin seen_paths

\* the `for f in &stats.files` loop
RECURSIVE InsertFiles(_, _, _, _, _)
InsertFiles(st, commit_id, files, seen_paths, fail_at) ==
    IF st.failed \/ files = <<>> THEN st
    ELSE LET f == Head(files) IN
         IF FirstOfPath(seen_paths, f.path)
         THEN InsertFiles(ExecInsertFile(st, commit_id, f, fail_at), commit_id,
                          Tail(files), seen_paths \cup {f.path}, fail_at)
         ELSE InsertFiles(st, commit_id, Tail(files), seen_paths, fail_at)

\* a loop that deletes the file rows of an entry before it looks for its info
WithoutInfoDeletes(st, stats) ==
    [st EXCEPT !.fr = [c \in DOMAIN st.fr \ {stats.commit_id} |-> st.fr[c]]]

\* an entry for which `infos.get(&stats.commit_id)` is None: no statement runs
WithoutInfo(st, stats) == st

\* the body of `for stats in commits`
StoreEntry(st, stats, infos, fail_at) ==
    IF stats.commit_id \notin DOMAIN infos THEN WithoutInfo(st, stats)
    ELSE
        LET s1 == ExecInsertCommit(st, infos[stats.commit_id], fail_at)
            s2 == IF s1.failed THEN s1
                  ELSE ExecDeleteFiles(s1, stats.commit_id, fail_at)
        IN  IF s2.failed THEN s2
            ELSE InsertFiles(s2, stats.commit_id, stats.files, {}, fail_at)

RECURSIVE StoreLoop(_, _, _, _)
StoreLoop(st, batch, infos, fail_at) ==
    IF st.failed \/ batch = <<>> THEN st
    ELSE StoreLoop(StoreEntry(st, Head(batch), infos, fail_at),
                   Tail(batch), infos, fail_at)

\* statements that take effect one by one, outside a transaction
TxEndNoRollback(cr, fr, st, fail_at) ==
    [ok |-> ~st.failed /\ st.n + 1 # fail_at, cr |-> st.cr, fr |-> st.fr]

\* the end of the transaction: tx.commit() makes the statements' effects
\* the content of the file; an early return drops tx, which rolls back
TxEnd(cr, fr, st, fail_at) ==
    IF ~st.failed /\ st.n + 1 # fail_at
    THEN [ok |-> TRUE, cr |-> st.cr, fr |-> st.fr]
    ELSE [ok |-> FALSE, cr |-> cr, fr |-> fr]

\* Cache::store_commit_stats
StoreCommitStats(cr, fr, batch, infos, fail_at) ==
    TxEnd(cr, fr, StoreLoop(TxBegin(cr, fr), batch, infos, fail_at), fail_at)

\* the number of statements store_commit_stats runs when none fails,
\* tx.commit() included
StatementCount(cr, fr, batch, infos) ==
    StoreLoop(TxBegin(cr, fr), batch, infos, 0).n + 1

-----------------------------------------------------------------------------
(* heat/fetch.rs                                                           *)

Range(f) == {f[i] : i \in DOMAIN f}

IdsOf(stats) == {stats[i].commit_id : i \in DOMAIN stats}

\* a fetch that computes every commit the walk lists
MissingIdsAll(repo_ids, existing_ids) == repo_ids

\* the `if existing_ids.contains(id_str.as_str()) { continue; }` filter
MissingIds(repo_ids, existing_ids) ==
    SelectSeq(repo_ids, LAMBDA id : id \notin existing_ids)

\* a fetch that stores the stats it has computed before it returns the error
FetchFailedAfterStore(cr, fr, computed_stats) ==
    LET infos == [id \in IdsOf(computed_stats) |-> RepoGetCommitInfo(id)]
        stored == StoreCommitStats(cr, fr, computed_stats, infos, 0)
    IN  [ok |-> FALSE, stats |-> <<>>, computed |-> IdsOf(computed_stats),
         cr |-> stored.cr, fr |-> stored.fr]

\* the `?` of a failed step: the error is returned, no store was made
FetchFailed(cr, fr, computed_stats) ==
    [ok |-> FALSE, stats |-> <<>>, computed |-> IdsOf(computed_stats),
     cr |-> cr, fr |-> fr]

\* a fetch that returns the cached stats only
ExtendNothing(cached_stats, missing_stats) == cached_stats

\* `cached_stats.extend(missing_stats)`
Extend(cached_stats, missing_stats) == cached_stats \o missing_stats

\* a fetch that computes and stores every commit the walk lists
FetchMissingUncached(cr, fr, range, include_merges) ==
    ListCommitIds(range, include_merges)

\* the commits fetch has to compute: those the walk lists and the cache
\* does not return for the range
FetchMissing(cr, fr, range, include_merges) ==
    MissingIds(ListCommitIds(range, include_merges),
               IdsOf(GetCommitStats(cr, fr, range)))

\* fetch_commit_stats_with_progress. fault says which step fails, if any:
\* at is "none", "cache_read", "list", "compute" (the k-th missing commit)
\* or "store" (the k-th statement); lost holds the commits whose
\* repo.get_commit_info returns Err.
FetchCommitStats(cr, fr, range, include_merges, binary, fault) ==
    LET cached_stats == GetCommitStats(cr, fr, range)
        missing_ids == FetchMissing(cr, fr, range, include_merges)
        missing_stats == [i \in 1..Len(missing_ids) |->
                             ComputeCommitStatsFor(missing_ids[i], binary)]
        commit_infos == [id \in Range(missing_ids) \ fault.lost |->
                            RepoGetCommitInfo(id)]
        stored == StoreCommitStats(cr, fr, missing_stats, commit_infos,
                                   IF fault.at = "store" THEN fault.k ELSE 0)
    IN  IF fault.at \in {"cache_read", "list"} THEN FetchFailed(cr, fr, <<>>)
        ELSE IF fault.at = "compute"
        THEN FetchFailed(cr, fr, SubSeq(missing_stats, 1, fault.k - 1))
        ELSE IF missing_stats = <<>>
        THEN [ok |-> TRUE, stats |-> cached_stats, computed |-> {},
              cr |-> cr, fr |-> fr]
        ELSE IF ~stored.ok THEN FetchFailed(stored.cr, stored.fr, missing_stats)
        ELSE [ok |-> TRUE, stats |-> Extend(cached_stats, missing_stats),
              computed |-> IdsOf(missing_stats),
              cr |-> stored.cr, fr |-> stored.fr]

Fault(at, k, lost) == [at |-> at, k |-> k, lost |-> lost]

\* the ways one fetch can go
FetchFaults(cr, fr, range, include_merges, binary) ==
    LET missing_ids == FetchMissing(cr, fr, range, include_merges)
        missing_stats == [i \in 1..Len(missing_ids) |->
                             ComputeCommitStatsFor(missing_ids[i], binary)]
        infos == [id \in Range(missing_ids) |-> RepoGetCommitInfo(id)]
    IN  {Fault("none", 0, lost) : lost \in SUBSET Range(missing_ids)}
        \cup {Fault("cache_read", 0, {}), Fault("list", 0, {})}
        \cup {Fault("compute", k, {}) : k \in 1..Len(missing_ids)}
        \cup IF missing_ids = <<>> THEN {}
             ELSE {Fault("store", k, {}) :
                      k \in {1, StatementCount(cr, fr, missing_stats, infos)}}

-----------------------------------------------------------------------------
(* The state machine                                                       *)

\* what `last` records of an operation: its name and arguments (range,
\* include_merges, binary), whether it returned Ok, the stats it returned
\* (for a store: the batch it was given), the commits whose stats it
\* computed (for a store: the commits it had an info for), the commit ids
\* stored in the cache when it was called, and the faults it met
Op(op, range, include_merges, binary, ok, stats, computed, pre_ids, fault) ==
    [op |-> op, range |-> range, include_merges |-> include_merges,
     binary |-> binary, ok |-> ok, stats |-> stats, computed |-> computed,
     pre_ids |-> pre_ids, at |-> fault.at, k |-> fault.k, lost |-> fault.lost,
     infos |-> <<>>]

NoFault == Fault("none", 0, {})

NoOp(op) == Op(op, FullRange, FALSE, FALSE, TRUE, <<>>, {}, {}, NoFault)

NewCommit(timestamp, parent_ids, changes) ==
    [timestamp |-> timestamp, parent_ids |-> parent_ids, changes |-> changes]

\* the repositories the program is started in: one root commit, or two
\* unrelated histories merged (A = 1, B = 2, M = 3 with parents A, B)
RootRepos ==
    {(1 :> NewCommit(ts, <<>>, ch)) : ts \in Timestamps, ch \in ChangeLists}
MergeRepo ==
    (1 :> NewCommit(1, <<>>, ChangesPlain))
    @@ (2 :> NewCommit(2, <<>>, ChangesCopy))
    @@ (3 :> NewCommit(2, <<1, 2>>, ChangesPlain))
SeedRepos == RootRepos \cup {MergeRepo}

\* a repository, HEAD at its newest commit, and the cache file Cache::new creates
Init ==
    /\ commits \in SeedRepos
    /\ head = Cardinality(DOMAIN commits)
    /\ has_tables = TRUE
    /\ user_version = SCHEMA_VERSION
    /\ commit_rows = <<>>
    /\ file_rows = NoFiles
    /\ last = NoOp("open")

\* the parents of a new commit on a branch of the history: HEAD, HEAD
\* merged with another commit, or another commit (a branch checked out there)
ParentChoices ==
    {<<head>>}
    \cup {<<head, o>> : o \in DOMAIN commits \ {head}}
    \cup {<<o>> : o \in DOMAIN commits \ {head}}

\* the same, and none: the root of an orphan branch
ParentChoicesOrRoot == ParentChoices \cup {<<>>}

\* git commit / git merge, outside the program: HEAD moves to the new commit
AddCommit(max, lists, parent_choices) ==
    /\ Cardinality(DOMAIN commits) < max
    /\ \E ts \in Timestamps, ch \in lists, ps \in parent_choices :
          LET id == Cardinality(DOMAIN commits) + 1 IN
          /\ commits' = (id :> NewCommit(ts, ps, ch)) @@ commits
          /\ head' = id
    /\ last' = NoOp("commit")
    /\ UNCHANGED cacheVars

Commit == AddCommit(MaxCommits, ChangeLists, ParentChoices)

\* one call of fetch_commit_stats_with_progress
Fetch ==
    \E range \in Ranges, include_merges \in BOOLEAN, binary \in BOOLEAN :
      \E fault \in FetchFaults(commit_rows, file_rows, range, include_merges,
                               binary) :
        \E r \in {FetchCommitStats(commit_rows, file_rows, range,
                                   include_merges, binary, fault)} :
            /\ commit_rows' = r.cr
            /\ file_rows' = r.fr
            /\ last' = Op("fetch", range, include_merges, binary, r.ok,
                          r.stats, r.computed, DOMAIN commit_rows, fault)
            /\ UNCHANGED <<commits, head, has_tables, user_version>>

Next == Commit \/ Fetch

Spec == Init /\ [][Next]_vars

-----------------------------------------------------------------------------
(* The commit walk alone: collect_commits over the histories of up to     *)
(* MaxWalkCommits commits                                                  *)

CommitWalk == AddCommit(MaxWalkCommits, {ChangesPlain}, ParentChoicesOrRoot)

\* one call of collect_commits
Collect ==
    \E range \in Ranges, include_merges \in BOOLEAN, binary \in BOOLEAN :
        LET stats == CollectCommits(range, include_merges, binary) IN
        /\ last' = Op("collect_commits", range, include_merges, binary, TRUE,
                      stats, IdsOf(stats), DOMAIN commit_rows, NoFault)
        /\ UNCHANGED <<repoVars, cacheVars>>

NextWalk == CommitWalk \/ Collect

SpecWalk == Init /\ [][NextWalk]_vars

\* the commits reachable from HEAD through parent links
RECURSIVE Closure(_)
Closure(S) ==
    LET T == S \cup UNION {Range(commits[c].parent_ids) : c \in S}
    IN IF T = S THEN S ELSE Closure(T)
Reachable == Closure({head})

\* the commit is inside the date range and passes the merge filter
Qualifies(c, range, include_merges) ==
    /\ Contains(range, FromSecs(commits[c].timestamp))
    /\ include_merges \/ Len(commits[c].parent_ids) <= 1

\* C4: a commit walk returns every commit reachable from HEAD that is inside
\* the date range and passes the merge filter, also when every path to it
\* runs through commits the walk leaves out.
C4_SkippedCommitsKeepAncestry ==
    last.op = "collect_commits" =>
        \A c \in Reachable :
            Qualifies(c, last.range, last.include_merges)
                => c \in IdsOf(last.stats)

\* HEAD is a merge the walk left out, and both its parents are in the output
C4_Witness ==
    /\ last.op = "collect_commits"
    /\ ~last.include_merges
    /\ Len(commits[head].parent_ids) = 2
    /\ head \notin IdsOf(last.stats)
    /\ Range(commits[head].parent_ids) \subseteq IdsOf(last.stats)

\* C5: a commit walk returns only commits whose timestamp is inside the date
\* range and, when merges are excluded, only commits with at most one
\* parent; it returns one CommitStats per such commit and none for another.
C5_OnlyQualifyingCommits ==
    last.op = "collect_commits" =>
        /\ \A i \in DOMAIN last.stats :
              /\ last.stats[i].commit_id \in Reachable
              /\ Qualifies(last.stats[i].commit_id, last.range,
                           last.include_merges)
        /\ \A i, j \in DOMAIN last.stats :
              last.stats[i].commit_id = last.stats[j].commit_id => i = j

\* the walk met a commit outside the range and a merge it had to skip, and
\* returned some other commit
C5_Witness ==
    /\ last.op = "collect_commits"
    /\ ~last.include_merges
    /\ \E c \in Reachable : ~Contains(last.range, FromSecs(commits[c].timestamp))
    /\ \E c \in Reachable :
          /\ Contains(last.range, FromSecs(commits[c].timestamp))
          /\ Len(commits[c].parent_ids) > 1
    /\ last.stats # <<>>

-----------------------------------------------------------------------------
(* Fetch against the cache                                                 *)

\* a list of CommitStats as a set: the commit ids, each with its file entries
StatsSet(stats) ==
    {[commit_id |-> stats[i].commit_id, files |-> Range(stats[i].files)] :
        i \in DOMAIN stats}

SameCall(a, b) ==
    /\ a.range = b.range
    /\ a.include_merges = b.include_merges
    /\ a.binary = b.binary

\* C1: two successive fetches with the same arguments, the repository
\* unchanged in between, return the same commit ids with the same file
\* entries.
C1_FetchTwiceSameStats ==
    [][(/\ last.op = "fetch" /\ last.ok
        /\ last'.op = "fetch" /\ last'.ok
        /\ SameCall(last, last'))
       => StatsSet(last'.stats) = StatsSet(last.stats)]_vars

\* C2: a fetch computes the stats of no commit whose id the cache held
\* when it was called, whatever its range and flags.
C2_StoredNeverRecomputed ==
    last.op = "fetch" => last.computed \cap last.pre_ids = {}

\* a fetch whose walk listed a commit the cache held, and which computed
\* another one
C2_Witness ==
    /\ last.op = "fetch" /\ last.ok
    /\ last.computed # {}
    /\ \E c \in last.pre_ids :
          c \in Range(ListCommitIds(last.range, last.include_merges))

\* every commit has at most one parent and is an ancestor of HEAD
Linear ==
    /\ Reachable = DOMAIN commits
    /\ \A c \in DOMAIN commits : Len(commits[c].parent_ids) <= 1

C6_ReturnedStatsResolve ==
    (last.op = "fetch" /\ last.ok) =>
        \A c \in IdsOf(last.stats) :
            /\ IsSome(GetCommitInfo(commit_rows, c))
            /\ Unwrap(GetCommitInfo(commit_rows, c)).id = c

\* C10: a fetch that fails (reading the cache, listing the commit ids,
\* computing the stats of a missing commit, or storing) returns no stats
\* and leaves the cache file as it was.
C10_FailedFetchStoresNothing ==
    [][(last'.op = "fetch" /\ ~last'.ok)
       => (last'.stats = <<>> /\ UNCHANGED cacheVars)]_vars

\* a fetch failed at its second or a later missing commit, after it had
\* computed the stats of an earlier one, and nothing of it is in the cache
C10_Witness ==
    /\ last.op = "fetch" /\ ~last.ok
    /\ last.at = "compute"
    /\ last.computed # {}
    /\ \A c \in last.computed : c \notin DOMAIN commit_rows

-----------------------------------------------------------------------------
(* The cache file alone: Cache::new on files of any stamp, and            *)
(* store_commit_stats with any batch                                       *)

\* the cache files Cache::new can be given: none yet, one this version
\* wrote, and one stamped by another version, empty or with a commit
SeedCaches ==
    {<<FALSE, 0, <<>>, NoFiles>>,
     <<TRUE, SCHEMA_VERSION, <<>>, NoFiles>>,
     <<TRUE, SCHEMA_VERSION + 1, <<>>, NoFiles>>,
     <<TRUE, SCHEMA_VERSION + 1,
       (1 :> CommitRow(CommitInfo(1, FromSecs(1), <<>>))),
       (1 :> HandleChanges(ChangesPlain, FALSE))>>}

InitCache ==
    /\ commits = MergeRepo
    /\ head = 3
    /\ \E file \in SeedCaches :
          /\ has_tables = file[1]
          /\ user_version = file[2]
          /\ commit_rows = file[3]
          /\ file_rows = file[4]
    /\ last = NoOp("new")

\* Cache::new: initialize creates the tables and indexes that are absent,
\* then checks the stamp
Initialize ==
    LET r == CheckSchemaVersion(user_version) IN
    /\ has_tables' = TRUE
    /\ user_version' = r.user_version
    /\ last' = Op("initialize", FullRange, FALSE, FALSE, r.ok, <<>>, {},
                  DOMAIN commit_rows, Fault(r.at, 0, {}))
    /\ UNCHANGED <<repoVars, commit_rows, file_rows>>

\* the file lists of the stats handed to a store: one file, or the list of
\* a commit that modifies and copies a file (path "a" twice)
StoreFileLists == {HandleChanges(ch, FALSE) : ch \in ChangeLists}

StoreEntries ==
    {CommitStats(id, files) : id \in {1, 2}, files \in StoreFileLists}

Batches ==
    UNION {[1..n -> StoreEntries] : n \in 0..MaxBatch}

\* one call of store_commit_stats on an open cache; the infos are those of
\* the repository for the commits of the batch, but for the ones in lost
Store ==
    /\ has_tables
    /\ user_version = SCHEMA_VERSION
    /\ \E batch \in Batches :
        \E lost \in SUBSET IdsOf(batch) :
          LET infos == [id \in IdsOf(batch) \ lost |-> RepoGetCommitInfo(id)] IN
          \E fail_at \in 0..StatementCount(commit_rows, file_rows, batch, infos) :
            \E r \in {StoreCommitStats(commit_rows, file_rows, batch, infos,
                                       fail_at)} :
                /\ commit_rows' = r.cr
                /\ file_rows' = r.fr
                /\ last' = [Op("store", FullRange, FALSE, FALSE, r.ok, batch,
                               DOMAIN infos, DOMAIN commit_rows,
                               Fault(IF fail_at = 0 THEN "none" ELSE "statement",
                                     fail_at, lost))
                            EXCEPT !.infos = infos]
    /\ UNCHANGED <<repoVars, has_tables, user_version>>

NextCache == Initialize \/ Store

SpecCache == InitCache /\ [][NextCache]_vars

\* the entries of a file list that are the first of their path
FirstByPath(files) ==
    LET keep == {i \in DOMAIN files :
                    \A j \in 1..(i - 1) : files[j].path # files[i].path}
        idx == SortedIds(keep)
    IN [n \in 1..Len(idx) |-> files[idx[n]]]

\* the last entry of the batch for a commit id
LastEntryOf(batch, id) ==
    batch[CHOOSE i \in DOMAIN batch :
            /\ batch[i].commit_id = id
            /\ \A j \in DOMAIN batch : batch[j].commit_id = id => j <= i]

\* C7: store_commit_stats is all or nothing over the batch. A call in
\* which a statement fails leaves the commit rows and the file rows as they
\* were; a call that succeeds leaves, for every commit of the batch that
\* has an info, its commit row together with the file rows written with it.
C7_StoreIsAtomic ==
    [][last'.op = "store" =>
        IF ~last'.ok
        THEN UNCHANGED <<commit_rows, file_rows>>
        ELSE \A id \in last'.computed :
                /\ id \in DOMAIN commit_rows'
                /\ commit_rows'[id] = CommitRow(last'.infos[id])
                /\ FilesOf(file_rows', id)
                     = FirstByPath(LastEntryOf(last'.stats, id).files)]_vars

\* a store of two commits failed at a statement of the second one, and the
\* rows of the first one are not in the cache
C7_Witness ==
    /\ last.op = "store" /\ ~last.ok
    /\ Len(last.stats) = 2
    /\ last.stats[1].commit_id # last.stats[2].commit_id
    /\ last.computed = IdsOf(last.stats)
    /\ last.k > 2 + Len(FirstByPath(last.stats[1].files))
    /\ last.stats[1].commit_id \notin DOMAIN commit_rows

\* C8: the file rows hold at most one row per (commit_id, path), and a
\* store in which no statement is made to fail succeeds, also when a files
\* list repeats a path, when the commit is stored already and when the
\* batch repeats a commit id.
C8_OneRowPerPath ==
    /\ \A c \in DOMAIN file_rows :
          \A i, j \in DOMAIN file_rows[c] :
              file_rows[c][i].path = file_rows[c][j].path => i = j
    /\ (last.op = "store" /\ last.at = "none") => last.ok

\* a store succeeded whose batch holds twice the same commit, stored
\* before, with a files list that repeats a path
C8_Witness ==
    /\ last.op = "store" /\ last.ok
    /\ Len(last.stats) = 2
    /\ last.stats[1].commit_id = last.stats[2].commit_id
    /\ last.stats[1].commit_id \in last.pre_ids
    /\ last.stats[1].commit_id \in last.computed
    /\ \A n \in 1..2 : FirstByPath(last.stats[n].files) # last.stats[n].files
    /\ FilesOf(file_rows, last.stats[1].commit_id) # <<>>

\* C11: store_commit_stats skips every entry of the batch whose commit id
\* has no info: the call succeeds when no statement fails, the commit row
\* and the file rows of such an id are what they were before the call, and
\* every commit of the batch that has an info has its row afterwards.
C11_EntriesWithoutInfoSkipped ==
    [][(last'.op = "store" /\ last'.at = "none")
       => /\ last'.ok
          /\ \A id \in IdsOf(last'.stats) \ last'.computed :
                /\ id \in DOMAIN commit_rows' <=> id \in DOMAIN commit_rows
                /\ id \in DOMAIN commit_rows
                      => commit_rows'[id] = commit_rows[id]
                /\ FilesOf(file_rows', id) = FilesOf(file_rows, id)
          /\ \A id \in last'.computed :
                /\ id \in DOMAIN commit_rows'
                /\ commit_rows'[id] = CommitRow(last'.infos[id])]_vars

\* a store of two commits succeeded: the first, stored before with file
\* rows, had no info and kept its rows; the second had one and was new
C11_Witness ==
    /\ last.op = "store" /\ last.ok
    /\ Len(last.stats) = 2
    /\ last.stats[1].commit_id \notin last.computed
    /\ last.stats[1].commit_id \in last.pre_ids
    /\ FilesOf(file_rows, last.stats[1].commit_id) # <<>>
    /\ FilesOf(file_rows, last.stats[1].commit_id)
          # FirstByPath(last.stats[1].files)
    /\ last.stats[2].commit_id \in last.computed
    /\ last.stats[2].commit_id \notin last.pre_ids
    /\ last.stats[2].commit_id \in DOMAIN commit_rows

\* the entry get_commit_stats returns for a commit id, if it returns one
EntriesOf(stats, id) == {i \in DOMAIN stats : stats[i].commit_id = id}

\* C12: after a store that succeeds, for every commit of the batch that had
\* an info and every range that contains its timestamp, get_commit_stats
\* returns one entry for the commit, whose files are the first entry of
\* each path of the stored list and nothing else, and get_commit_info
\* returns the info given in the call.
C12_StoredThenRead ==
    (last.op = "store" /\ last.ok) =>
        \A id \in last.computed :
            /\ GetCommitInfo(commit_rows, id) = Some(last.infos[id])
            /\ \A range \in AllRanges :
                  Contains(range, last.infos[id].timestamp) =>
                    LET stats == GetCommitStats(commit_rows, file_rows, range)
                        given == FirstByPath(LastEntryOf(last.stats, id).files)
                    IN  /\ Cardinality(EntriesOf(stats, id)) = 1
                        /\ \A i \in EntriesOf(stats, id) :
                              /\ Len(stats[i].files) = Len(given)
                              /\ Range(stats[i].files) = Range(given)

\* a commit stored with one file was stored again with a list of three
\* entries on two paths, and is read back with two files
C12_Witness ==
    /\ last.op = "store" /\ last.ok
    /\ Len(last.stats) = 1
    /\ last.stats[1].commit_id \in last.computed \cap last.pre_ids
    /\ Len(last.stats[1].files) = 3
    /\ LET stats == GetCommitStats(commit_rows, file_rows, FullRange)
       IN \E i \in DOMAIN stats :
             /\ stats[i].commit_id = last.stats[1].commit_id
             /\ Len(stats[i].files) = 2

\* C9: initialize on a cache file stamped with a version other than the
\* expected one fails with the schema-version-mismatch error, at every
\* attempt, and leaves the stamp, the commit rows and the file rows as
\* they were.
C9_MismatchFailsAndKeepsData ==
    [][(last'.op = "initialize" /\ user_version \notin {0, SCHEMA_VERSION})
       => /\ ~last'.ok
          /\ last'.at = "schema_mismatch"
          /\ UNCHANGED <<user_version, commit_rows, file_rows>>]_vars

\* a failed attempt on a file of another version that holds a commit
C9_Witness ==
    /\ last.op = "initialize" /\ ~last.ok
    /\ user_version \notin {0, SCHEMA_VERSION}
    /\ commit_rows # <<>>
    /\ file_rows # <<>>

-----------------------------------------------------------------------------
(* The queries of the cache: get_commit_stats and get_missing_commits on   *)
(* a cache of up to MaxStored commits of any timestamps, stored in any     *)
(* order                                                                   *)

\* what `last` records of a query: its name, its arguments (a range, a list
\* of ids) and the list it returned
QueryOp(op, range, ids, result) ==
    [op |-> op, range |-> range, ids |-> ids, result |-> result]

InitQuery ==
    /\ commits = MergeRepo
    /\ head = 3
    /\ has_tables = TRUE
    /\ user_version = SCHEMA_VERSION
    /\ commit_rows = <<>>
    /\ file_rows = NoFiles
    /\ last = NoOp("new")

\* the file lists of the stats stored here: no file, or one
PutFileLists == {<<>>, HandleChanges(ChangesPlain, FALSE)}

\* store_commit_stats of one commit with its info, of any timestamp
Put ==
    \E id \in 1..MaxStored, ts \in Timestamps, files \in PutFileLists :
        LET batch == <<CommitStats(id, files)>>
            infos == (id :> CommitInfo(id, FromSecs(ts), <<>>))
            r == StoreCommitStats(commit_rows, file_rows, batch, infos, 0)
        IN  /\ commit_rows' = r.cr
            /\ file_rows' = r.fr
            /\ last' = [Op("store", FullRange, FALSE, FALSE, r.ok, batch,
                           DOMAIN infos, DOMAIN commit_rows, NoFault)
                        EXCEPT !.infos = infos]
            /\ UNCHANGED <<repoVars, has_tables, user_version>>

\* the lists that enumerate a set once each
Perms(S) ==
    {f \in [1..Cardinality(S) -> S] : \A x \in S : \E i \in DOMAIN f : f[i] = x}

\* one call of get_commit_stats; the map yields its entries in any order
Get ==
    \E range \in AllRanges :
      \E iter \in Perms({c \in DOMAIN commit_rows :
                            RowInRange(range, commit_rows[c])}) :
        /\ last' = QueryOp("get_commit_stats", range, <<>>,
                           GetCommitStatsIn(commit_rows, file_rows, range, iter))
        /\ UNCHANGED <<repoVars, cacheVars>>

\* the lists of ids get_missing_commits is asked about
AskedIds == UNION {[1..n -> 1..MaxStored] : n \in 0..MaxStored}

\* one call of get_missing_commits
Missing ==
    \E ids \in AskedIds :
        /\ last' = QueryOp("get_missing_commits", FullRange, ids,
                           GetMissingCommits(commit_rows, ids))
        /\ UNCHANGED <<repoVars, cacheVars>>

NextQuery == Put \/ Get \/ Missing

SpecQuery == InitQuery /\ [][NextQuery]_vars

\* C13: get_commit_stats returns a stored commit if and only if the range
\* contains its timestamp, as the commit walk decides it, and returns a
\* stored commit of the range that has no file rows with an empty list.
C13_RangeAsContains ==
    last.op = "get_commit_stats" =>
        \A c \in DOMAIN commit_rows :
            /\ c \in IdsOf(last.result)
                  <=> Contains(last.range, FromSecs(commit_rows[c].timestamp))
            /\ (c \in IdsOf(last.result) /\ FilesOf(file_rows, c) = <<>>)
                  => \A i \in EntriesOf(last.result, c) :
                        last.result[i].files = <<>>

\* C14: the list get_commit_stats returns is in strictly ascending order
\* of commit id, so no id occurs twice, whatever the timestamps of the
\* commits and the order in which the map yields them.
C14_SortedByCommitId ==
    last.op = "get_commit_stats" =>
        \A i, j \in DOMAIN last.result :
            i < j => last.result[i].commit_id < last.result[j].commit_id

\* two commits are returned, the one of the greater id being the older
C14_Witness ==
    /\ last.op = "get_commit_stats"
    /\ Len(last.result) = 2
    /\ commit_rows[last.result[1].commit_id].timestamp
          > commit_rows[last.result[2].commit_id].timestamp

\* C15: get_missing_commits returns the ids it was given that are not
\* stored, each once per occurrence and whatever their order, the empty
\* list for the empty list, and leaves the cache as it was.
C15_MissingAreTheUnstored ==
    [][last'.op = "get_missing_commits"
       => /\ {last'.result[i] : i \in DOMAIN last'.result}
               = {last'.ids[i] : i \in DOMAIN last'.ids} \ DOMAIN commit_rows
          /\ Len(last'.result)
               = Cardinality({i \in DOMAIN last'.ids :
                                 last'.ids[i] \notin DOMAIN commit_rows})
          /\ last'.ids = <<>> => last'.result = <<>>
          /\ UNCHANGED cacheVars]_vars

\* asked about a stored commit and a new one, the new one first: the new
\* one is returned
C15_Witness ==
    /\ last.op = "get_missing_commits"
    /\ Len(last.ids) = 2
    /\ last.ids[1] \notin DOMAIN commit_rows
    /\ last.ids[2] \in DOMAIN commit_rows
    /\ last.result = <<last.ids[1]>>

-----------------------------------------------------------------------------
(* The pure functions: DateRange::contains on every range and instant,     *)
(* compute_line_diff, iteration by iteration, on every pair of texts of up *)
(* to MaxLines lines, and handle_change on every change over a few blobs   *)

\* the texts: the line sequences over two lines, and those of the examples
LineSeqs ==
    UNION {[1..n -> {"a", "b"}] : n \in 0..MaxLines}
    \cup {<<"a", "b", "c">>, <<"a", "c">>, <<"a", "x", "c">>}

\* a call of compute_line_diff at its entry
DiffCall(old, new) ==
    [op |-> "compute_line_diff", old |-> old, new |-> new,
     d |-> DiffState(0, 0, 0, 0)]

\* a call of contains before it returns, and after
ContainsCall(range, t) == [op |-> "contains_call", range |-> range, t |-> t]
ContainsReturn(range, t, result) ==
    [op |-> "contains", range |-> range, t |-> t, result |-> result]

\* the instants asked about: those of the bounds, one before, one after
AskedInstants == Instants \cup {1, 5}

\* the blobs of the changes: no NUL byte, or the first one at the start,
\* at the last index the scan reads, or at the first it does not; and a
\* text of no line, of one line or of two
Blobs ==
    {BlobOf(n, l) :
        n \in {None, Some(0), Some(BinaryScanLen - 1), Some(BinaryScanLen)},
        l \in {<<>>, <<"x">>, <<"y">>, <<"x", "y">>}}

\* the changes of a tree diff over these blobs
Changes ==
    {Addition("a", b) : b \in Blobs}
    \cup {Deletion("a", b) : b \in Blobs}
    \cup {Modification("a", p, b) : p, b \in Blobs}
    \cup {Rewrite("a", "b", p, b, copy) : p, b \in Blobs, copy \in BOOLEAN}

\* a call of handle_change at its entry, and after
ChangeCall(change, binary) ==
    [op |-> "handle_change_call", change |-> change, binary |-> binary]
ChangeReturn(change, binary, files) ==
    [op |-> "handle_change", change |-> change, binary |-> binary,
     files |-> files]

InitPure ==
    /\ commits = MergeRepo
    /\ head = 3
    /\ has_tables = TRUE
    /\ user_version = SCHEMA_VERSION
    /\ commit_rows = <<>>
    /\ file_rows = NoFiles
    /\ last \in {DiffCall(old, new) : old, new \in LineSeqs}
              \cup {ContainsCall(range, t) : range \in AllRanges,
                                            t \in AskedInstants}
              \cup {ChangeCall(change, binary) : change \in Changes,
                                                binary \in BOOLEAN}

\* the loop of compute_line_diff goes round once, or ends
DiffStep ==
    /\ last.op = "compute_line_diff"
    /\ ~last.d.done
    /\ last' = [last EXCEPT !.d = LineDiffStep(last.old, last.new, last.d)]
    /\ UNCHANGED <<repoVars, cacheVars>>

\* contains returns
Contain ==
    /\ last.op = "contains_call"
    /\ last' = ContainsReturn(last.range, last.t, Contains(last.range, last.t))
    /\ UNCHANGED <<repoVars, cacheVars>>

\* handle_change returns, with the entries it pushed
Handle ==
    /\ last.op = "handle_change_call"
    /\ last' = ChangeReturn(last.change, last.binary,
                            HandleChange(last.change, last.binary))
    /\ UNCHANGED <<repoVars, cacheVars>>

NextPure == DiffStep \/ Contain \/ Handle

SpecPure == InitPure /\ [][NextPure]_vars

\* C16: contains(t) is true exactly when t is not before since, where
\* since is present, and not after until, where until is present.
C16_ContainsIsInclusive ==
    last.op = "contains" =>
        (last.result <=>
            /\ IsSome(last.range.since) => last.t >= Unwrap(last.range.since)
            /\ IsSome(last.range.until) => last.t <= Unwrap(last.range.until))

\* an instant that is both bounds of the range is contained
C16_Witness ==
    /\ last.op = "contains"
    /\ last.range.since = Some(last.t)
    /\ last.range.until = Some(last.t)
    /\ last.result

\* the loop is at two lines that differ
Differ ==
    /\ last.op = "compute_line_diff"
    /\ ~last.d.done
    /\ last.d.oi < Len(last.old)
    /\ last.d.ni < Len(last.new)
    /\ last.old[last.d.oi + 1] # last.new[last.d.ni + 1]

\* the line k lines after the old cursor is the line at the new cursor
DelMatch(k) ==
    /\ last.d.oi + k < Len(last.old)
    /\ last.old[last.d.oi + k + 1] = last.new[last.d.ni + 1]

\* the line k lines after the new cursor is the line at the old cursor
InsMatch(k) ==
    /\ last.d.ni + k < Len(last.new)
    /\ last.new[last.d.ni + k + 1] = last.old[last.d.oi + 1]

\* C17 as stated: when the lines at the cursors differ and a deletion
\* look-ahead of 1, 2 or 3 lines matches, the iteration records a deletion,
\* whatever the insertion look-aheads do.
C17_DeletionsBeforeInsertions ==
    [][(Differ /\ \E k \in 1..3 : DelMatch(k)) => last'.d.step = "del"]_vars

\* C17 as amended: the look-aheads are tried by distance k = 1, 2, 3 and,
\* at each distance, the deletion before the insertion; the first that
\* matches wins. A deletion of k lines is recorded when the deletion
\* look-ahead k matches and no look-ahead of a smaller distance does, and
\* an insertion of k lines when the insertion look-ahead k matches, the
\* deletion look-ahead k does not, and none of a smaller distance does.
C17_SmallestDistanceFirst ==
    [][Differ =>
        \A k \in 1..3 :
            (\A j \in 1..(k - 1) : ~DelMatch(j) /\ ~InsMatch(j)) =>
                /\ DelMatch(k) => (last'.d.step = "del" /\ last'.d.k = k)
                /\ (InsMatch(k) /\ ~DelMatch(k))
                      => (last'.d.step = "add" /\ last'.d.k = k)]_vars

\* an insertion of one line was recorded where the deletion look-ahead of
\* two lines matched as well
C17_Witness ==
    /\ last.op = "compute_line_diff"
    /\ last.d.step = "add" /\ last.d.k = 1
    /\ last.d.oi + 2 < Len(last.old)
    /\ last.old[last.d.oi + 3] = last.new[last.d.ni]

\* C18: an iteration that records a deletion found the line at the new
\* cursor k lines after the old cursor, 1 <= k <= 3, adds k to deleted and
\* k to the old cursor and leaves added and the new cursor; one that
\* records an insertion does the same with the sides exchanged. The diff of
\* [a, b, c] against [a, c] is (0, 1).
C18_MatchSkipsKLines ==
    [][last.op = "compute_line_diff" =>
        /\ last'.d.step = "del" =>
              /\ last'.d.k \in 1..3 /\ DelMatch(last'.d.k)
              /\ last'.d.deleted = last.d.deleted + last'.d.k
              /\ last'.d.oi = last.d.oi + last'.d.k
              /\ last'.d.added = last.d.added /\ last'.d.ni = last.d.ni
        /\ last'.d.step = "add" =>
              /\ last'.d.k \in 1..3 /\ InsMatch(last'.d.k)
              /\ last'.d.added = last.d.added + last'.d.k
              /\ last'.d.ni = last.d.ni + last'.d.k
              /\ last'.d.deleted = last.d.deleted /\ last'.d.oi = last.d.oi
        /\ (/\ last'.d.done
            /\ last.old = <<"a", "b", "c">> /\ last.new = <<"a", "c">>)
              => (last'.d.added = 0 /\ last'.d.deleted = 1)]_vars

\* a deletion of three lines was recorded, with nothing added
C18_Witness ==
    /\ last.op = "compute_line_diff"
    /\ last.d.step = "del" /\ last.d.k = 3
    /\ last.d.deleted >= 3
    /\ last.d.added = 0

\* C19: when the lines at the cursors differ and no look-ahead of 1, 2 or
\* 3 lines matches on either side, the iteration adds 1 to added and to
\* deleted and 1 to each cursor, also when the line at the new cursor
\* comes more than 3 lines further in the old text. The diff of [a, b, c]
\* against [a, x, c] is (1, 1).
C19_NoMatchIsSubstitution ==
    [][/\ (Differ /\ \A k \in 1..3 : ~DelMatch(k) /\ ~InsMatch(k)) =>
            /\ last'.d.step = "subst"
            /\ last'.d.added = last.d.added + 1
            /\ last'.d.deleted = last.d.deleted + 1
            /\ last'.d.oi = last.d.oi + 1
            /\ last'.d.ni = last.d.ni + 1
       /\ (/\ last.op = "compute_line_diff" /\ last'.d.done
           /\ last.old = <<"a", "b", "c">> /\ last.new = <<"a", "x", "c">>)
             => (last'.d.added = 1 /\ last'.d.deleted = 1)]_vars

\* a substitution was recorded where the line at the new cursor came four
\* lines further in the old text: a run of four deleted lines
C19_Witness ==
    /\ last.op = "compute_line_diff"
    /\ last.d.step = "subst"
    /\ last.d.oi + 3 < Len(last.old)
    /\ last.old[last.d.oi + 4] = last.new[last.d.ni]

\* C20: the diff of a text against itself is (0, 0).
C20_SameTextNoChange ==
    (last.op = "compute_line_diff" /\ last.d.done /\ last.old = last.new)
        => (last.d.added = 0 /\ last.d.deleted = 0)

\* the diff of [a, b, c] against itself has ended
C20_Witness ==
    /\ last.op = "compute_line_diff" /\ last.d.done
    /\ last.old = <<"a", "b", "c">> /\ last.new = last.old
    /\ last.d.oi = 3 /\ last.d.ni = 3

\* C21: an iteration that finds one text exhausted adds all the remaining
\* lines of the other to its count and ends the loop; the diff of an empty
\* old text is (length of new, 0) and that of an empty new text is
\* (0, length of old).
C21_ExhaustedSideCountsRest ==
    [][(last.op = "compute_line_diff" /\ ~last.d.done) =>
        /\ (last.d.oi >= Len(last.old) /\ last.d.ni < Len(last.new)) =>
              /\ last'.d.done
              /\ last'.d.added = last.d.added + (Len(last.new) - last.d.ni)
              /\ last'.d.deleted = last.d.deleted
        /\ (last.d.ni >= Len(last.new) /\ last.d.oi < Len(last.old)) =>
              /\ last'.d.done
              /\ last'.d.deleted = last.d.deleted + (Len(last.old) - last.d.oi)
              /\ last'.d.added = last.d.added
        /\ (last'.d.done /\ last.old = <<>>) =>
              (last'.d.added = Len(last.new) /\ last'.d.deleted = 0)
        /\ (last'.d.done /\ last.new = <<>>) =>
              (last'.d.added = 0 /\ last'.d.deleted = Len(last.old))]_vars

\* the diff of an empty text against one of three lines has ended with
\* (3, 0)
C21_Witness ==
    /\ last.op = "compute_line_diff" /\ last.d.done
    /\ last.old = <<>> /\ Len(last.new) = 3
    /\ last.d.step = "rest_added"
    /\ last.d.added = 3 /\ last.d.deleted = 0

\* one of the first 8192 bytes of the blob is NUL
NulInFirstBytes(obj) == IsSome(obj.first_nul) /\ Unwrap(obj.first_nul) <= 8191

\* the change involves a blob with a NUL among its first 8192 bytes
InvolvesBinary(change) ==
    IF change.kind \in {"Addition", "Deletion"} THEN NulInFirstBytes(change.obj)
    ELSE NulInFirstBytes(change.previous) \/ NulInFirstBytes(change.obj)

\* C22: a blob counts as binary exactly when one of its first 8192 bytes
\* is NUL. An Addition, Deletion or Modification that involves such a blob
\* emits no entry when binary files are excluded, and one entry for its
\* path, with is_binary true and both counts 0, when they are included; an
\* entry emitted for a change that involves none has is_binary false.
C22_BinaryChanges ==
    (/\ last.op = "handle_change"
     /\ last.change.kind \in {"Addition", "Deletion", "Modification"})
    => IF InvolvesBinary(last.change)
       THEN IF ~last.binary THEN last.files = <<>>
            ELSE last.files = <<FileStats(last.change.location, 0, 0, TRUE)>>
       ELSE /\ Len(last.files) = 1
            /\ ~last.files[1].is_binary

\* with binary files included, the addition of a blob whose only NUL is
\* its byte 8191 gave one binary entry, though the blob has a line
C22_Witness ==
    /\ last.op = "handle_change"
    /\ last.change.kind = "Addition"
    /\ last.binary
    /\ last.change.obj.first_nul = Some(8191)
    /\ last.change.obj.lines # <<>>
    /\ last.files = <<FileStats("a", 0, 0, TRUE)>>

\* C23 as stated: a Modification is dropped exactly when a side is binary
\* and binary files are excluded; otherwise it emits one entry, which
\* carries the line diff of the old text against the new and has
\* is_binary false.
C23_ModificationIsText ==
    (last.op = "handle_change" /\ last.change.kind = "Modification")
    => /\ last.files = <<>> <=> (InvolvesBinary(last.change) /\ ~last.binary)
       /\ last.files # <<>> =>
             last.files
               = <<FileStats(last.change.location,
                             ComputeLineDiff(last.change.previous,
                                             last.change.obj)[1],
                             ComputeLineDiff(last.change.previous,
                                             last.change.obj)[2],
                             FALSE)>>

\* C23 as amended: a Modification is dropped exactly when a side is binary
\* and binary files are excluded; otherwise it emits one entry for its
\* path, which carries the line diff of the old text against the new and
\* is_binary false when neither side is binary, and both counts 0 and
\* is_binary true when one is. The diff of [x] against [x, y] is carried
\* as 1 added, 0 deleted.
C23_ModificationByKind ==
    (last.op = "handle_change" /\ last.change.kind = "Modification")
    => /\ last.files = <<>> <=> (InvolvesBinary(last.change) /\ ~last.binary)
       /\ last.files # <<>> =>
             last.files
               = IF InvolvesBinary(last.change)
                 THEN <<FileStats(last.change.location, 0, 0, TRUE)>>
                 ELSE <<FileStats(last.change.location,
                                  ComputeLineDiff(last.change.previous,
                                                  last.change.obj)[1],
                                  ComputeLineDiff(last.change.previous,
                                                  last.change.obj)[2],
                                  FALSE)>>
       /\ (/\ ~InvolvesBinary(last.change)
           /\ last.change.previous.lines = <<"x">>
           /\ last.change.obj.lines = <<"x", "y">>)
             => (/\ last.files[1].added_lines = 1
                 /\ last.files[1].deleted_lines = 0)

\* with binary files included, a text modified into a binary blob gave
\* one entry with is_binary true and no line counted
C23_Witness ==
    /\ last.op = "handle_change"
    /\ last.change.kind = "Modification"
    /\ last.binary
    /\ ~NulInFirstBytes(last.change.previous)
    /\ last.change.previous.lines = <<"x">>
    /\ NulInFirstBytes(last.change.obj)
    /\ last.files = <<FileStats("a", 0, 0, TRUE)>>

\* C24: a Rewrite is excluded exactly when a side is binary and binary
\* files are excluded; otherwise it emits two entries, the source path
\* first. The source entry has 0 added lines and, as deleted lines, 0 for
\* a copy and the diff's deleted count for a rename; the destination entry
\* has 0 deleted lines and, as added lines, the diff's added count for a
\* copy and 0 for a rename; both have is_binary true exactly when a side
\* is binary, and the diff of a binary pair counts (0, 0).
C24_RewriteTwoEntries ==
    (last.op = "handle_change" /\ last.change.kind = "Rewrite")
    => /\ last.files = <<>> <=> (InvolvesBinary(last.change) /\ ~last.binary)
       /\ last.files # <<>> =>
             LET bin == InvolvesBinary(last.change)
                 d == IF bin THEN <<0, 0>>
                      ELSE ComputeLineDiff(last.change.previous, last.change.obj)
             IN  /\ Len(last.files) = 2
                 /\ last.files[1]
                      = FileStats(last.change.source_location, 0,
                                  IF last.change.copy THEN 0 ELSE d[2], bin)
                 /\ last.files[2]
                      = FileStats(last.change.location,
                                  IF last.change.copy THEN d[1] ELSE 0, 0, bin)

\* a rename of a text [x] that became [y]: the source entry has the one
\* deleted line and the destination entry no added line
C24_Witness ==
    /\ last.op = "handle_change"
    /\ last.change.kind = "Rewrite"
    /\ ~last.change.copy
    /\ ~InvolvesBinary(last.change)
    /\ last.change.previous.lines = <<"x">>
    /\ last.change.obj.lines = <<"y">>
    /\ last.files = <<FileStats("a", 0, 1, FALSE), FileStats("b", 0, 0, FALSE)>>


-----------------------------------------------------------------------------
(* The merge flag                                                          *)

\* what the same fetch would have reported without the merges: the call
\* made on the same repository, range and cache with include_merges = false
WithoutMerges(cr, fr, range, binary) ==
    FetchCommitStats(cr, fr, range, FALSE, binary, NoFault)

\* C25: for the same repository, range and cache, the commits reported with
\* include_merges = true contain the commits reported with include_merges =
\* false, so the count with merges is at least the count without; the same
\* holds of the walk of collect_commits.
C25_MergesOnlyAdd ==
    [][(last'.op = "fetch" /\ last'.ok /\ last'.include_merges) =>
          \E other \in {WithoutMerges(commit_rows, file_rows, last'.range,
                                      last'.binary)} :
              /\ other.ok
              /\ IdsOf(other.stats) \subseteq IdsOf(last'.stats)
              /\ Len(other.stats) <= Len(last'.stats)
              /\ IdsOf(CollectCommits(last'.range, FALSE, last'.binary))
                    \subseteq
                    IdsOf(CollectCommits(last'.range, TRUE, last'.binary))]_vars

\* a fetch with the merges that reported the merge at HEAD, which the fetch
\* without the merges leaves out
C25_Witness ==
    /\ last.op = "fetch" /\ last.ok /\ last.include_merges
    /\ Len(commits[head].parent_ids) > 1
    /\ head \in last.computed
    /\ head \notin IdsOf(CollectCommits(last.range, FALSE, last.binary))
    /\ Len(last.stats) = 3

-----------------------------------------------------------------------------
(* The commands churn, export and heat: each walks the history with        *)
(* collect_commits and stores what the cache did not return                *)

\* the `filter(|s| !existing_ids.contains(s.commit_id.as_str()))` of a command
CommandMissing(repo_stats, cached) ==
    SelectSeq(repo_stats, LAMBDA s : s.commit_id \notin IdsOf(cached))

\* the infos a command looks up in the repository for the missing commits;
\* lost holds the commits whose repo.get_commit_info returns Err
RepoInfos(missing, lost) ==
    [id \in IdsOf(missing) \ lost |-> RepoGetCommitInfo(id)]

\* churn looks an info up in the cache first, then in the repository
ChurnInfos(cr, missing, lost) ==
    [id \in {c \in IdsOf(missing) : c \in DOMAIN cr \/ c \notin lost} |->
        IF IsSome(GetCommitInfo(cr, id)) THEN Unwrap(GetCommitInfo(cr, id))
        ELSE RepoGetCommitInfo(id)]

\* compute_churn, prepare_export_data and compute_heat return the error
\* "Commit info not found" for a commit that has no row in table commits
InfosFound(cr, stats) == \A id \in IdsOf(stats) : IsSome(GetCommitInfo(cr, id))

\* what a command returns: whether it ended Ok, the stats it aggregated, the
\* commits whose tree diff and line diffs it computed, and the cache it left
CommandResult(ok, stats, repo_stats, cr, fr) ==
    [ok |-> ok, stats |-> IF ok THEN stats ELSE <<>>,
     computed |-> IdsOf(repo_stats), cr |-> cr, fr |-> fr]

\* churn::exec; fail_at is the statement of the store that fails, 0 for none
ChurnExec(cr, fr, range, include_merges, binary, lost, fail_at) ==
    LET cached == GetCommitStats(cr, fr, range)
        repo_stats == CollectCommits(range, include_merges, binary)
        missing == CommandMissing(repo_stats, cached)
        stored == StoreCommitStats(cr, fr, missing,
                                   ChurnInfos(cr, missing, lost), fail_at)
    IN  IF missing = <<>>
        THEN CommandResult(InfosFound(cr, cached), cached, repo_stats, cr, fr)
        ELSE IF ~stored.ok
        THEN CommandResult(FALSE, <<>>, repo_stats, stored.cr, stored.fr)
        ELSE CommandResult(InfosFound(stored.cr, cached \o missing),
                           cached \o missing, repo_stats,
                           stored.cr, stored.fr)

\* export::exec: the store is skipped when no info was found
ExportExec(cr, fr, range, include_merges, binary, lost, fail_at) ==
    LET cached_stats == GetCommitStats(cr, fr, range)
        repo_stats == CollectCommits(range, include_merges, binary)
        missing_commits == CommandMissing(repo_stats, cached_stats)
        commit_infos == RepoInfos(missing_commits, lost)
        stored == IF DOMAIN commit_infos = {}
                  THEN [ok |-> TRUE, cr |-> cr, fr |-> fr]
                  ELSE StoreCommitStats(cr, fr, missing_commits, commit_infos,
                                        fail_at)
    IN  IF missing_commits = <<>>
        THEN CommandResult(InfosFound(cr, cached_stats), cached_stats,
                           repo_stats, cr, fr)
        ELSE IF ~stored.ok
        THEN CommandResult(FALSE, <<>>, repo_stats, stored.cr, stored.fr)
        ELSE CommandResult(InfosFound(stored.cr, cached_stats \o missing_commits),
                           cached_stats \o missing_commits, repo_stats,
                           stored.cr, stored.fr)

\* heat::exec of heat.rs: the cache is read again after the store
HeatExec(cr, fr, range, include_merges, binary, lost, fail_at) ==
    LET cached_stats == GetCommitStats(cr, fr, range)
        repo_stats == CollectCommits(range, include_merges, binary)
        missing_commits == CommandMissing(repo_stats, cached_stats)
        stored == IF missing_commits = <<>>
                  THEN [ok |-> TRUE, cr |-> cr, fr |-> fr]
                  ELSE StoreCommitStats(cr, fr, missing_commits,
                                        RepoInfos(missing_commits, lost),
                                        fail_at)
        all_stats == GetCommitStats(stored.cr, stored.fr, range)
    IN  IF ~stored.ok
        THEN CommandResult(FALSE, <<>>, repo_stats, stored.cr, stored.fr)
        ELSE CommandResult(InfosFound(stored.cr, all_stats), all_stats,
                           repo_stats, stored.cr, stored.fr)

\* the ways one run of a command can go: which infos the repository fails
\* to give, or the first statement of the store failing
CommandFaults(range, include_merges) ==
    {Fault("none", 0, lost) :
        lost \in SUBSET Range(ListCommitIds(range, include_merges))}
    \cup {Fault("store", 1, {})}

\* a run of command op has ended with result r
CommandDone(op, range, include_merges, binary, fault, r) ==
    /\ commit_rows' = r.cr
    /\ file_rows' = r.fr
    /\ last' = Op(op, range, include_merges, binary, r.ok, r.stats,
                  r.computed, DOMAIN commit_rows, fault)
    /\ UNCHANGED <<commits, head, has_tables, user_version>>

\* one run of `gmap churn`
Churn ==
    \E range \in Ranges, include_merges \in BOOLEAN, binary \in BOOLEAN :
      \E fault \in CommandFaults(range, include_merges) :
        \E r \in {ChurnExec(commit_rows, file_rows, range, include_merges,
                            binary, fault.lost, fault.k)} :
            CommandDone("churn", range, include_merges, binary, fault, r)

\* one run of `gmap export`
Export ==
    \E range \in Ranges, include_merges \in BOOLEAN, binary \in BOOLEAN :
      \E fault \in CommandFaults(range, include_merges) :
        \E r \in {ExportExec(commit_rows, file_rows, range, include_merges,
                             binary, fault.lost, fault.k)} :
            CommandDone("export", range, include_merges, binary, fault, r)

\* one run of `gmap heat`
Heat ==
    \E range \in Ranges, include_merges \in BOOLEAN, binary \in BOOLEAN :
      \E fault \in CommandFaults(range, include_merges) :
        \E r \in {HeatExec(commit_rows, file_rows, range, include_merges,
                           binary, fault.lost, fault.k)} :
            CommandDone("heat", range, include_merges, binary, fault, r)

\* runs of the commands over a repository that no commit is added to
NextExec == Churn \/ Export \/ Heat

SpecExec == Init /\ [][NextExec]_vars

\* C26: when churn, export or heat runs a second time, with the same
\* arguments, over the unchanged repository and the cache the first run
\* filled, it computes no tree diff or line diff for a commit that is
\* already in the cache.
C26_SecondRunComputesNothingCached ==
    [][(/\ last.op \in {"churn", "export", "heat"} /\ last.ok
        /\ last'.op = last.op /\ last'.range = last.range
        /\ last'.include_merges = last.include_merges
        /\ last'.binary = last.binary)
       => last'.computed \cap DOMAIN commit_rows = {}]_vars

-----------------------------------------------------------------------------
(* The cache across fetches                                                *)

\* C27: a cached entry is never invalidated: no fetch, whatever its range
\* and flags and however it ends, removes or rewrites the commit row or the
\* file rows of a commit id that was stored when it was called, so the
\* stored ids only grow and the stored stats stay those first stored.
C27_StoredEntriesKept ==
    [][last'.op = "fetch" =>
          \A id \in DOMAIN commit_rows :
              /\ id \in DOMAIN commit_rows'
              /\ commit_rows'[id] = commit_rows[id]
              /\ FilesOf(file_rows', id) = FilesOf(file_rows, id)]_vars

\* a fetch with binary files included that stored a new commit, its walk
\* listing a commit stored by a fetch that left the binary file "c" out
C27_Witness ==
    /\ last.op = "fetch" /\ last.ok /\ last.binary
    /\ last.computed # {}
    /\ last.computed \subseteq DOMAIN commit_rows
    /\ \E id \in last.pre_ids :
          /\ id \in Range(ListCommitIds(last.range, last.include_merges))
          /\ commits[id].changes = ChangesCopy
          /\ FilesOf(file_rows, id) # <<>>
          /\ \A i \in DOMAIN FilesOf(file_rows, id) :
                FilesOf(file_rows, id)[i].path # "c"

-----------------------------------------------------------------------------
(* tui/input.rs: the search filters of the dashboard. A string is the     *)
(* sequence of its characters; an index counts from 0 as in the code      *)

\* char::to_lowercase on the characters of the labels, names and queries:
\* the letters a, b and w in either case, and digits
LowerChar(c) ==
    CASE c = "A" -> "a"
      [] c = "B" -> "b"
      [] c = "W" -> "w"
      [] OTHER -> c

\* a comparison that keeps the case
ToLowercaseKept(str) == str

\* str::to_lowercase
ToLowercase(str) == [i \in DOMAIN str |-> LowerChar(str[i])]

\* str::contains: pat is a substring of str
StrContains(str, pat) ==
    \E i \in 0..(Len(str) - Len(pat)) : SubSeq(str, i + 1, i + Len(pat)) = pat

\* `(0..len).collect()`
AllIndices(len) == [i \in 1..len |-> i - 1]

\* the closure of apply_search_filter: the label or a top author matches
WeekMatches(week, query) ==
    \/ StrContains(ToLowercase(week.week), query)
    \/ \E a \in DOMAIN week.top_authors :
          StrContains(ToLowercase(week.top_authors[a]), query)

\* ensure_selection_in_filtered
EnsureSelectionInFiltered(state) ==
    IF state.filtered_indices = <<>> THEN state
    ELSE IF state.selected \notin Range(state.filtered_indices)
    THEN [state EXCEPT !.selected = state.filtered_indices[1]]
    ELSE state

\* apply_search_filter
ApplySearchFilter(weeks, state) ==
    EnsureSelectionInFiltered(
        [state EXCEPT !.filtered_indices =
            IF state.search_query = <<>> THEN AllIndices(Len(weeks))
            ELSE SelectSeq(AllIndices(Len(weeks)),
                     LAMBDA i :
                         WeekMatches(weeks[i + 1],
                                     ToLowercase(state.search_query)))])

\* the closure of apply_commit_search_filter: the message, the author name
\* or the short hash matches
CommitMatches(c, q) ==
    \/ StrContains(ToLowercase(c.message), q)
    \/ StrContains(ToLowercase(c.author_name), q)
    \/ StrContains(ToLowercase(c.short_hash), q)

\* usize::saturating_sub
SaturatingSub(a, b) == IF a >= b THEN a - b ELSE 0

\* a selection that is never moved
ClampCommitSelectedNever(state) == state

\* the `if state.commit_selected >= state.commit_filtered_indices.len()` at
\* the end of apply_commit_search_filter
ClampCommitSelected(state) ==
    IF state.commit_selected >= Len(state.commit_filtered_indices)
    THEN [state EXCEPT !.commit_selected =
             SaturatingSub(Len(state.commit_filtered_indices), 1)]
    ELSE state

\* apply_commit_search_filter
ApplyCommitSearchFilter(state) ==
    ClampCommitSelected(
        [state EXCEPT !.commit_filtered_indices =
            IF state.commit_search_query = <<>>
            THEN AllIndices(Len(state.commit_details))
            ELSE SelectSeq(AllIndices(Len(state.commit_details)),
                     LAMBDA i :
                         CommitMatches(state.commit_details[i + 1],
                             ToLowercase(state.commit_search_query)))])

-----------------------------------------------------------------------------
(* The search filters alone, over the lists of up to MaxPeriods periods   *)
(* or commits                                                              *)

MaxPeriods == 3

\* WeekStats and CommitDetail, the fields the filters read
WeekStats(week, count, top_authors) ==
    [week |-> week, commits |-> count, top_authors |-> top_authors]
CommitDetail(short_hash, author_name, message) ==
    [short_hash |-> short_hash, author_name |-> author_name,
     message |-> message]

\* TuiState, the fields the filters read and write
TuiState(selected, search_query, filtered_indices, commit_details, commit_selected, commit_search_query, commit_filtered_indices, show_all, last_refresh) ==
    [show_all |-> show_all, last_refresh |-> last_refresh,
     selected |-> selected, search_query |-> search_query,
     filtered_indices |-> filtered_indices,
     commit_details |-> commit_details, commit_selected |-> commit_selected,
     commit_search_query |-> commit_search_query,
     commit_filtered_indices |-> commit_filtered_indices]

\* the periods of the lists: "W1" by "ab", "w2" by "Ba", "W2" by "a1" and
\* "B", and "W1" with no author
Periods ==
    {WeekStats(<<"W", "1">>, 1, <<<<"a", "b">>>>),
     WeekStats(<<"w", "2">>, 1, <<<<"B", "a">>>>),
     WeekStats(<<"W", "2">>, 1, <<<<"a", "1">>, <<"B">>>>),
     WeekStats(<<"W", "1">>, 1, <<>>)}

\* the commits of the lists: a1 by "Ab" "w", B2 by "b" "Wa", 12 by "a" "",
\* 1a by "Ba" "ab"
Details ==
    {CommitDetail(<<"a", "1">>, <<"A", "b">>, <<"w">>),
     CommitDetail(<<"B", "2">>, <<"b">>, <<"W", "a">>),
     CommitDetail(<<"1", "2">>, <<"a">>, <<>>),
     CommitDetail(<<"1", "a">>, <<"B", "a">>, <<"a", "b">>)}

\* the queries typed: none, and some in either case that match a label, a
\* name, a hash, a message, or nothing
Queries ==
    {<<>>, <<"w">>, <<"W", "1">>, <<"a">>, <<"A", "B">>, <<"b", "a">>,
     <<"2">>, <<"b", "1">>}

ListsOf(S) == UNION {[1..n -> S] : n \in 0..MaxPeriods}

\* a call of a filter at its entry, and after
SearchCall(weeks, state) ==
    [op |-> "apply_search_filter_call", weeks |-> weeks, state |-> state]
SearchReturn(weeks, before, state) ==
    [op |-> "apply_search_filter", weeks |-> weeks, before |-> before,
     state |-> state]
CommitSearchCall(state) ==
    [op |-> "apply_commit_search_filter_call", state |-> state]
CommitSearchReturn(before, state) ==
    [op |-> "apply_commit_search_filter", before |-> before, state |-> state]

\* the filters are called with any selection, inside the list or past its
\* end, and the indices of the whole list
InitInput ==
    /\ commits = MergeRepo
    /\ head = 3
    /\ has_tables = TRUE
    /\ user_version = SCHEMA_VERSION
    /\ commit_rows = <<>>
    /\ file_rows = NoFiles
    /\ last \in
        {SearchCall(weeks,
                    TuiState(selected, query, AllIndices(Len(weeks)), <<>>,
                             0, <<>>, <<>>, FALSE, None)) :
            weeks \in ListsOf(Periods), selected \in 0..MaxPeriods,
            query \in Queries}
        \cup
        {CommitSearchCall(
             TuiState(0, <<>>, <<>>, details, commit_selected, query,
                      AllIndices(Len(details)), FALSE, None)) :
            details \in ListsOf(Details),
            commit_selected \in 0..(MaxPeriods + 2), query \in Queries}

\* apply_search_filter returns
Search ==
    /\ last.op = "apply_search_filter_call"
    /\ last' = SearchReturn(last.weeks, last.state,
                            ApplySearchFilter(last.weeks, last.state))
    /\ UNCHANGED <<repoVars, cacheVars>>

\* apply_commit_search_filter returns
CommitSearch ==
    /\ last.op = "apply_commit_search_filter_call"
    /\ last' = CommitSearchReturn(last.state,
                                  ApplyCommitSearchFilter(last.state))
    /\ UNCHANGED <<repoVars, cacheVars>>

NextInput == Search \/ CommitSearch

SpecInput == InitInput /\ [][NextInput]_vars

\* two characters are the same letter, in either case
SameLetter(c, d) ==
    \/ c = d
    \/ {c, d} \in {{"a", "A"}, {"b", "B"}, {"w", "W"}}

\* str holds pat at some position, the case of the letters set aside
ContainsIgnoringCase(str, pat) ==
    \E i \in 0..(Len(str) - Len(pat)) :
        \A j \in 1..Len(pat) : SameLetter(str[i + j], pat[j])

\* indices is the strictly ascending list of the members of wanted
AscendingListOf(indices, wanted) ==
    /\ \A j, k \in DOMAIN indices : j < k => indices[j] < indices[k]
    /\ Range(indices) = wanted

\* C29: after apply_search_filter, filtered_indices is the ascending list of
\* the indices of the periods whose label or one of whose top authors
\* contains the query case-insensitively (all indices for an empty query),
\* and when the list is not empty the selection is a member of it, moved to
\* the first match if it was not.
C29_SearchFilter ==
    last.op = "apply_search_filter" =>
        /\ AscendingListOf(last.state.filtered_indices,
              {i \in 0..(Len(last.weeks) - 1) :
                  \/ last.before.search_query = <<>>
                  \/ ContainsIgnoringCase(last.weeks[i + 1].week,
                                          last.before.search_query)
                  \/ \E a \in DOMAIN last.weeks[i + 1].top_authors :
                        ContainsIgnoringCase(last.weeks[i + 1].top_authors[a],
                                             last.before.search_query)})
        /\ last.state.filtered_indices # <<>> =>
              /\ last.state.selected \in Range(last.state.filtered_indices)
              /\ last.before.selected \notin Range(last.state.filtered_indices)
                    => last.state.selected = last.state.filtered_indices[1]

\* a query with a capital that matched some periods, one of them by an
\* author alone, and moved the selection to the first of them, not index 0
C29_Witness ==
    /\ last.op = "apply_search_filter"
    /\ last.before.search_query = <<"A", "B">>
    /\ last.state.filtered_indices = <<1, 2>>
    /\ last.before.selected = 0
    /\ last.state.selected = 1

\* C30: after apply_commit_search_filter, commit_filtered_indices is the
\* ascending list of the indices of the commits whose message, author name
\* or short hash contains the query case-insensitively (all indices for an
\* empty query), and commit_selected is smaller than the number of
\* filtered commits, or 0 when no commit matches.
C30_CommitSearchFilter ==
    last.op = "apply_commit_search_filter" =>
        /\ AscendingListOf(last.state.commit_filtered_indices,
              {i \in 0..(Len(last.before.commit_details) - 1) :
                  \E field \in {last.before.commit_details[i + 1].message,
                                last.before.commit_details[i + 1].author_name,
                                last.before.commit_details[i + 1].short_hash} :
                      ContainsIgnoringCase(field,
                                           last.before.commit_search_query)})
        /\ IF last.state.commit_filtered_indices = <<>>
           THEN last.state.commit_selected = 0
           ELSE /\ last.state.commit_selected
                      < Len(last.state.commit_filtered_indices)
                /\ last.before.commit_selected
                      < Len(last.state.commit_filtered_indices)
                      => last.state.commit_selected
                            = last.before.commit_selected

\* a query in capitals that matched two of three commits, one by its
\* author and one by its message, with the selection past the end of the
\* filtered list
C30_Witness ==
    /\ last.op = "apply_commit_search_filter"
    /\ last.before.commit_search_query = <<"A", "B">>
    /\ Len(last.before.commit_details) = 3
    /\ last.before.commit_selected = 5
    /\ last.state.commit_selected = 1
    /\ last.state.commit_filtered_indices = <<0, 2>>

-----------------------------------------------------------------------------
(* The dashboard: tui/run.rs, tui/events.rs and tui/events/actions.rs     *)

\* util.rs, week_key and month_key: every commit of the model is dated a
\* second or two after the epoch, in ISO week 1 of 1970 and in January
WeekKey(timestamp) == <<"1", "9", "7", "0", "-", "W", "0", "1">>
MonthKey(timestamp) == <<"1", "9", "7", "0", "-", "0", "1">>

\* util.rs, period_key
PeriodKey(timestamp, monthly) ==
    IF monthly THEN MonthKey(timestamp) ELSE WeekKey(timestamp)

\* the commits of stats that the cache has an info for, in the order of stats
WithInfo(stats, cr) ==
    SelectSeq(stats, LAMBDA cs : IsSome(GetCommitInfo(cr, cs.commit_id)))

\* aggregate_weeks: one entry for each period that has a commit, sorted by
\* label; the commits of the model fall into one period
AggregateWeeks(stats, cr, monthly) ==
    LET counted == WithInfo(stats, cr)
        keys == {PeriodKey(Unwrap(GetCommitInfo(cr, counted[i].commit_id))
                               .timestamp, monthly) : i \in DOMAIN counted}
    IN  [k \in 1..Cardinality(keys) |->
            LET key == CHOOSE x \in keys : TRUE IN
            WeekStats(key,
                Cardinality({i \in DOMAIN counted :
                    PeriodKey(Unwrap(GetCommitInfo(cr, counted[i].commit_id))
                                  .timestamp, monthly) = key}),
                <<>>)]

\* `if !state.show_all { ... weeks.split_off(weeks.len() - limit) }`
LimitWeeks(weeks, monthly, show_all) ==
    LET limit == IF monthly THEN 12 ELSE 52 IN
    IF ~show_all /\ Len(weeks) > limit
    THEN SubSeq(weeks, Len(weeks) - limit + 1, Len(weeks))
    ELSE weeks

\* `commits.sort_by(|a, b| b.timestamp.cmp(&a.timestamp))`, a stable sort
RECURSIVE SortNewestFirst(_, _)
SortNewestFirst(ids, cr) ==
    IF ids = <<>> THEN <<>>
    ELSE LET first == CHOOSE i \in DOMAIN ids :
                        /\ \A j \in DOMAIN ids :
                              cr[ids[j]].timestamp <= cr[ids[i]].timestamp
                        /\ \A j \in 1..(i - 1) :
                              cr[ids[j]].timestamp < cr[ids[i]].timestamp
         IN  <<ids[first]>>
             \o SortNewestFirst(SubSeq(ids, 1, first - 1)
                                \o SubSeq(ids, first + 1, Len(ids)), cr)

\* get_commits_for_period: the commits of stats dated in the period, newest
\* first; the short hash is the commit id, author and message are not kept
GetCommitsForPeriod(stats, cr, period, monthly) ==
    LET counted == WithInfo(stats, cr)
        in_period == SelectSeq(counted, LAMBDA cs :
            PeriodKey(Unwrap(GetCommitInfo(cr, cs.commit_id)).timestamp,
                      monthly) = period)
        ids == SortNewestFirst([i \in DOMAIN in_period |->
                                   in_period[i].commit_id], cr)
    IN  [i \in DOMAIN ids |-> CommitDetail(<<ToString(ids[i])>>, <<>>, <<>>)]

\* load_commit_details
LoadCommitDetails(state, weeks, stats, cr, monthly) ==
    IF state.selected >= Len(weeks) THEN state
    ELSE [state EXCEPT
            !.commit_details =
                GetCommitsForPeriod(stats, cr, weeks[state.selected + 1].week,
                                    monthly),
            !.commit_selected = 0]

\* the least time between two refreshes, in milliseconds
ThrottleMillis == 300

\* `if let Some(t) = state.last_refresh { if now.duration_since(t)
\* .as_millis() < 300 { ... } }`
Throttled(state, now) ==
    /\ IsSome(state.last_refresh)
    /\ now - Unwrap(state.last_refresh) < ThrottleMillis

\* what `last` holds of the dashboard: the step taken (with the key and the
\* function that handled it), the time of the step in milliseconds, whether
\* the event loop is still running, whether the session has met an error,
\* whether the step called fetch, the locals of run and the TuiState
Dashboard(op, key, handler, now, running, ok, fetched, range, binary, monthly_state, include_merges_state, stats, weeks, state) ==
    [op |-> op, key |-> key, handler |-> handler, now |-> now,
     running |-> running, ok |-> ok, fetched |-> fetched, range |-> range,
     binary |-> binary, monthly_state |-> monthly_state,
     include_merges_state |-> include_merges_state, stats |-> stats,
     weeks |-> weeks, state |-> state]

\* the outcome of a key: the dashboard after it and the cache after it
KeyOutcome(dash, cr, fr) == [dash |-> dash, cr |-> cr, fr |-> fr]

\* the periods shown: aggregate_weeks, then the limit
ShownWeeks(stats, cr, monthly, show_all) ==
    LimitWeeks(AggregateWeeks(stats, cr, monthly), monthly, show_all)

\* the end of the arm of 'm': the filter, then the details of the selection
MonthlyToggled(d, cr, fr, key, handler, now, monthly_state, weeks) ==
    LET refreshed == [d.state EXCEPT !.last_refresh = Some(now)]
        filtered == ApplySearchFilter(weeks, refreshed)
        loaded == LoadCommitDetails(filtered, weeks, d.stats, cr,
                                    monthly_state)
        state == IF weeks = <<>> THEN filtered
                 ELSE [loaded EXCEPT !.commit_filtered_indices =
                          AllIndices(Len(loaded.commit_details))]
    IN  KeyOutcome(Dashboard("key", key, handler, now, TRUE, TRUE, FALSE,
                             d.range, d.binary, monthly_state,
                             d.include_merges_state, d.stats, weeks, state),
                   cr, fr)

\* the arm of 'm' after the throttle, the same in run and in toggle_monthly
ToggleMonthly(d, cr, fr, key, handler, now) ==
    CHOOSE outcome \in
        {MonthlyToggled(d, cr, fr, key, handler, now, ~d.monthly_state, weeks) :
            weeks \in {ShownWeeks(d.stats, cr, ~d.monthly_state,
                                  d.state.show_all)}} : TRUE

\* the end of the arm of 'M' when the fetch has returned r: a fetch that
\* fails ends run with its error
MergesToggled(d, key, handler, now, include_merges_state, r) ==
    LET refreshed == [d.state EXCEPT !.last_refresh = Some(now)] IN
    IF ~r.ok
    THEN KeyOutcome(Dashboard("key", key, handler, now, FALSE, FALSE, TRUE,
                              d.range, d.binary, d.monthly_state,
                              include_merges_state, d.stats, d.weeks,
                              refreshed),
                    r.cr, r.fr)
    ELSE CHOOSE outcome \in
            {KeyOutcome(Dashboard("key", key, handler, now, TRUE, TRUE, TRUE,
                                  d.range, d.binary, d.monthly_state,
                                  include_merges_state, r.stats, weeks,
                                  ApplySearchFilter(weeks, refreshed)),
                        r.cr, r.fr) :
                weeks \in {ShownWeeks(r.stats, r.cr, d.monthly_state,
                                      d.state.show_all)}} : TRUE

\* the arm of 'M' after the throttle, the same in run and in toggle_merges
ToggleMerges(d, cr, fr, key, handler, now, fault) ==
    CHOOSE outcome \in
        {MergesToggled(d, key, handler, now, ~d.include_merges_state, r) :
            r \in {FetchCommitStats(cr, fr, d.range, ~d.include_merges_state,
                                    d.binary, fault)}} : TRUE

\* a key that leaves everything as it is; running tells whether the event
\* loop goes on
KeyIgnored(d, cr, fr, key, handler, now, running) ==
    KeyOutcome([d EXCEPT !.op = "key", !.key = key, !.handler = handler,
                         !.now = now, !.fetched = FALSE,
                         !.running = running],
               cr, fr)

\* a throttled key in the loop of run: `break`
RunThrottled(d, cr, fr, key, now) ==
    KeyIgnored(d, cr, fr, key, "run", now, FALSE)

\* a throttled key in toggle_monthly and toggle_merges: `return Ok(())`,
\* and handle_key_events returns Ok(false)
EventsThrottled(d, cr, fr, key, now) ==
    KeyIgnored(d, cr, fr, key, "handle_key_events", now, TRUE)

\* the arms 'q', 'm' and 'M' of the `match key_event.code` of run
RunKey(d, cr, fr, key, now, fault) ==
    IF key = "q" THEN KeyIgnored(d, cr, fr, key, "run", now, FALSE)
    ELSE IF Throttled(d.state, now) THEN RunThrottled(d, cr, fr, key, now)
    ELSE IF key = "m" THEN ToggleMonthly(d, cr, fr, key, "run", now)
    ELSE ToggleMerges(d, cr, fr, key, "run", now, fault)

\* the same arms of handle_key_events, with should_throttle_refresh
HandleKeyEvents(d, cr, fr, key, now, fault) ==
    IF key = "q"
    THEN KeyIgnored(d, cr, fr, key, "handle_key_events", now, FALSE)
    ELSE IF Throttled(d.state, now) THEN EventsThrottled(d, cr, fr, key, now)
    ELSE IF key = "m"
    THEN ToggleMonthly(d, cr, fr, key, "handle_key_events", now)
    ELSE ToggleMerges(d, cr, fr, key, "handle_key_events", now, fault)

\* run from the first fetch, which has returned r, to its event loop
RunStarted(range, include_merges, binary, monthly, show_all, r) ==
    CHOOSE outcome \in
        {KeyOutcome(Dashboard("run", "", "run", 0, r.ok, r.ok, TRUE, range,
                              binary, monthly, include_merges, r.stats, weeks,
                              TuiState(0, <<>>, AllIndices(Len(weeks)), <<>>,
                                       0, <<>>, <<>>, show_all, None)),
                    r.cr, r.fr) :
            weeks \in {ShownWeeks(r.stats, r.cr, monthly, show_all)}} : TRUE

\* run up to its event loop: the first fetch and aggregation
RunStart(cr, fr, range, include_merges, binary, monthly, show_all, fault) ==
    CHOOSE outcome \in
        {RunStarted(range, include_merges, binary, monthly, show_all, r) :
            r \in {FetchCommitStats(cr, fr, range, include_merges, binary,
                                    fault)}} : TRUE

\* the clock of the model stops at MaxClock milliseconds
MaxClock == 900

\* the time between two keys, in milliseconds
Delays == {0, 299, 300}

\* the keys pressed in the normal mode that this model follows
Keys == {"m", "M", "q"}

\* the ways the fetch of a step can go: well, or list_commit_ids fails
TuiFaults == {NoFault, Fault("list", 0, {})}

\* `gmap heat --interactive` is started on the merged repository with an
\* empty cache
InitTui ==
    /\ commits = MergeRepo
    /\ head = 3
    /\ has_tables = TRUE
    /\ user_version = SCHEMA_VERSION
    /\ commit_rows = <<>>
    /\ file_rows = NoFiles
    /\ last = NoOp("open")

\* run starts the dashboard
Run ==
    /\ last.op = "open"
    /\ \E range \in Ranges, include_merges \in BOOLEAN, monthly \in BOOLEAN,
          fault \in TuiFaults :
        \E o \in {RunStart(commit_rows, file_rows, range, include_merges,
                           FALSE, monthly, FALSE, fault)} :
            /\ last' = o.dash
            /\ commit_rows' = o.cr
            /\ file_rows' = o.fr
    /\ UNCHANGED <<commits, head, has_tables, user_version>>

\* a key has been handled, with outcome o
KeyHandled(o) ==
    /\ last' = o.dash
    /\ commit_rows' = o.cr
    /\ file_rows' = o.fr
    /\ UNCHANGED <<commits, head, has_tables, user_version>>

\* one round of the event loop of run in which a key is read
Key ==
    /\ last.op \in {"run", "key"}
    /\ last.running
    /\ \E key \in Keys, delay \in Delays, fault \in TuiFaults :
        /\ last.now + delay <= MaxClock
        /\ \E o \in {RunKey(last, commit_rows, file_rows, key,
                            last.now + delay, fault)} : KeyHandled(o)

\* one call of handle_key_events while the dashboard runs
KeyEvent ==
    /\ last.op \in {"run", "key"}
    /\ last.running
    /\ \E key \in Keys, delay \in Delays, fault \in TuiFaults :
        /\ last.now + delay <= MaxClock
        /\ \E o \in {HandleKeyEvents(last, commit_rows, file_rows, key,
                                     last.now + delay, fault)} : KeyHandled(o)

NextTui == Run \/ Key \/ KeyEvent

SpecTui == InitTui /\ [][NextTui]_vars

\* the toggle of the step asked for with key 'm' or 'M'
ToggleRequested ==
    /\ last.op \in {"run", "key"} /\ last.running
    /\ last'.op = "key" /\ last'.key \in {"m", "M"}

\* C28: in the dashboard a toggle ('m' or 'M') requested less than 300 ms
\* after the last accepted refresh is ignored: mode, merge flag, stats and
\* period list are unchanged, no fetch is issued and the dashboard keeps
\* running; a toggle requested at least 300 ms after the last accepted one
\* is carried out and becomes the new last refresh.
C28_ThrottledToggleIgnored ==
    [][ToggleRequested =>
          IF Throttled(last.state, last'.now)
          THEN /\ last'.monthly_state = last.monthly_state
               /\ last'.include_merges_state = last.include_merges_state
               /\ last'.stats = last.stats
               /\ last'.weeks = last.weeks
               /\ ~last'.fetched
               /\ UNCHANGED cacheVars
               /\ last'.running
          ELSE /\ last'.state.last_refresh = Some(last'.now)
               /\ IF last'.key = "m"
                  THEN last'.monthly_state = ~last.monthly_state
                  ELSE /\ last'.include_merges_state
                            = ~last.include_merges_state
                       /\ last'.fetched]_vars

-----------------------------------------------------------------------------
(* git/repo.rs: collect_commits, one loop iteration at a time               *)

\* the locals of collect_commits; `resolved` lists the find_commit calls,
\* `computed` the compute_commit_stats calls, `out` the ids pushed onto
\* `commits`, `visits` the parents pushed for each id that passed `seen`
WalkState(stack, seen, commit_cache, range, include_merges) ==
    [op |-> "walk", stack |-> stack, seen |-> seen,
     commit_cache |-> commit_cache, range |-> range,
     include_merges |-> include_merges, resolved |-> <<>>,
     computed |-> <<>>, out |-> <<>>, visits |-> <<>>, revisited |-> {},
     done |-> FALSE]

\* one parent push of one visited commit
Visit(commit_id, pushed, included) ==
    [commit_id |-> commit_id, pushed |-> pushed, included |-> included]

\* `commit_cache.get(&commit_id)` or else find_commit and
\* `commit_cache.insert`: the walk state after the metadata lookup
ResolveMeta(w, commit_id) ==
    IF commit_id \in w.commit_cache THEN w
    ELSE [w EXCEPT !.resolved = Append(@, commit_id),
                   !.commit_cache = @ \cup {commit_id}]

\* one evaluation of `stack.pop_back()` and, when it gives an id, the body of
\* the loop
WalkIteration(w) ==
    IF w.stack = <<>> THEN [w EXCEPT !.done = TRUE]
    ELSE
        LET commit_id == w.stack[Len(w.stack)]
            rest == PopBack(w.stack)
        IN
        IF AlreadySeen(w.seen, commit_id)
        THEN [w EXCEPT !.stack = rest, !.revisited = @ \cup {commit_id}]
        ELSE
            LET r == ResolveMeta(w, commit_id)
                meta == commits[commit_id]
                timestamp == FromSecs(meta.timestamp)
                parents == meta.parent_ids
                seen1 == w.seen \cup {commit_id}
            IN
            IF OutOfRange(w.range, timestamp)
               \/ SkippedMerge(w.include_merges, parents)
            THEN [r EXCEPT !.stack = PushParentsOfSkipped(rest, parents),
                           !.seen = seen1,
                           !.visits = Append(@, Visit(commit_id,
                               SubSeq(PushParentsOfSkipped(rest, parents),
                                      Len(rest) + 1,
                                      Len(PushParentsOfSkipped(rest, parents))),
                               FALSE))]
            ELSE [r EXCEPT !.stack = PushParents(rest, parents),
                           !.seen = seen1,
                           !.computed = Append(@, commit_id),
                           !.out = Append(@, commit_id),
                           !.visits = Append(@, Visit(commit_id, parents,
                                                      TRUE))]

\* a walk is between its first pop and its return
Walking == last.op = "walk" /\ ~last.done

\* the ranges the stepwise walk is called with
WalkRanges == {FullRange, DateRange(Some(3), None)}

\* a commit is added while no walk is running
CommitSteps == ~Walking /\ CommitWalk

\* collect_commits up to the loop: the stack holds the head commit
WalkStart ==
    /\ ~Walking
    /\ \E range \in WalkRanges, include_merges \in BOOLEAN :
          last' = WalkState(<<head>>, {}, {}, range, include_merges)
    /\ UNCHANGED <<repoVars, cacheVars>>

\* one loop iteration, or the return when the stack is empty
WalkStep ==
    /\ Walking
    /\ last' = WalkIteration(last)
    /\ UNCHANGED <<repoVars, cacheVars>>

NextSteps == CommitSteps \/ WalkStart \/ WalkStep

SpecWalkSteps == Init /\ [][NextSteps]_vars

\* the loop runs to its end once collect_commits was called: the next
\* iteration is always taken
SpecWalkLive == Init /\ [][NextSteps]_vars /\ WF_vars(WalkStep)

\* no element occurs twice in the sequence
NoDuplicates(s) == \A i, j \in DOMAIN s : s[i] = s[j] => i = j

\* C31: in one commit walk, whatever the shape of the commit graph, each
\* commit id appears at most once in the output and the stats of each commit
\* are computed at most once.
C31_EachCommitOnce ==
    last.op = "walk" =>
        /\ NoDuplicates(last.out)
        /\ NoDuplicates(last.computed)

\* a finished walk that popped a commit a second time, the commit being
\* part of the output
C31_Witness ==
    /\ last.op = "walk"
    /\ last.done
    /\ \E c \in last.revisited : c \in Range(last.out)
    /\ \E c \in Range(last.out) : Len(commits[c].parent_ids) > 1

\* C32: on every finite acyclic commit graph the walk ends with an empty
\* stack, having resolved the metadata of each commit reachable from HEAD
\* exactly once and having pushed all the parents of every popped unvisited
\* commit, included or not.
C32_WalkTerminates ==
    Walking ~>
        /\ last.op = "walk"
        /\ last.done
        /\ last.stack = <<>>
        /\ NoDuplicates(last.resolved)
        /\ Range(last.resolved) = Reachable
        /\ \A i \in DOMAIN last.visits :
              last.visits[i].pushed = commits[last.visits[i].commit_id].parent_ids
        /\ {last.visits[i].commit_id : i \in DOMAIN last.visits} = Reachable

\* a finished walk over a graph in which a commit has two children, with a
\* commit left out of the output and its parents pushed
C32_Witness ==
    /\ last.op = "walk"
    /\ last.done
    /\ last.stack = <<>>
    /\ last.revisited # {}
    /\ \E i \in DOMAIN last.visits :
          /\ ~last.visits[i].included
          /\ last.visits[i].pushed # <<>>

-----------------------------------------------------------------------------
(* git/repo.rs: compute_commit_stats on the trees of the commits            *)

MaxTreeCommits == 3

\* the paths of a tree, in the order the tree diff reports them
TreePaths == <<"x", "y">>

\* the blobs a path can hold; no blob of one path resembles a blob of the
\* other, so the tree diff finds no rename or copy between them
TreeBlobs(path) ==
    IF path = "x" THEN {TextX, TextXY}
    ELSE {Blob(FALSE, <<"p", "q">>), Binary}

\* a tree: the blobs of the paths it holds
Trees ==
    UNION {{t \in [S -> UNION {TreeBlobs(p) : p \in S}] :
                \A p \in S : t[p] \in TreeBlobs(p)} :
           S \in SUBSET Range(TreePaths)}

\* a commit with its tree
NewCommitTree(timestamp, parent_ids, tree) ==
    [timestamp |-> timestamp, parent_ids |-> parent_ids, tree |-> tree]

\* `find_commit(id)?.tree()`
TreeOf(commit_id) == commits[commit_id].tree

\* the change the tree diff reports for a path that differs
ChangeAt(old_tree, new_tree, path) ==
    IF path \notin DOMAIN old_tree THEN Addition(path, new_tree[path])
    ELSE IF path \notin DOMAIN new_tree THEN Deletion(path, old_tree[path])
    ELSE Modification(path, old_tree[path], new_tree[path])

\* the path has different entries in the two trees
Differs(old_tree, new_tree, path) ==
    \/ (path \in DOMAIN old_tree) # (path \in DOMAIN new_tree)
    \/ /\ path \in DOMAIN old_tree
       /\ path \in DOMAIN new_tree
       /\ old_tree[path] # new_tree[path]

\* diff_tree_to_tree(parent_tree, Some(commit_tree)): a missing old tree is
\* the empty tree
DiffTreeToTree(parent_tree, commit_tree) ==
    LET old_tree == IF IsSome(parent_tree) THEN Unwrap(parent_tree) ELSE <<>>
        changed == SelectSeq(TreePaths,
                             LAMBDA p : Differs(old_tree, commit_tree, p))
    IN [i \in 1..Len(changed) |-> ChangeAt(old_tree, commit_tree, changed[i])]

\* a walk that hands over the last parent
LastParent(parents) ==
    IF parents = <<>> THEN None ELSE Some(parents[Len(parents)])

\* `parents.first()`
FirstParent(parents) ==
    IF parents = <<>> THEN None ELSE Some(parents[1])

\* compute_commit_stats(commit_info, commit_id, parent_id, binary)
ComputeCommitStatsTrees(commit_id, parent_id, binary) ==
    LET commit_tree == TreeOf(commit_id)
        parent_tree == IF IsSome(parent_id)
                       THEN Some(TreeOf(Unwrap(parent_id))) ELSE None
    IN CommitStats(commit_id,
                   HandleChanges(DiffTreeToTree(parent_tree, commit_tree),
                                 binary))

\* collect_commits on a repository of commits with trees
CollectCommitsTrees(range, include_merges, binary) ==
    LET ids == WalkLoop(<<head>>, {}, <<>>, range, include_merges) IN
    [i \in 1..Len(ids) |->
        ComputeCommitStatsTrees(ids[i], FirstParent(commits[ids[i]].parent_ids),
                                binary)]

\* a repository of one root commit
InitTree ==
    /\ \E tree \in Trees : commits = (1 :> NewCommitTree(1, <<>>, tree))
    /\ head = 1
    /\ has_tables = TRUE
    /\ user_version = SCHEMA_VERSION
    /\ commit_rows = <<>>
    /\ file_rows = NoFiles
    /\ last = NoOp("open")

\* a commit with a tree of its own on any parents
CommitTree ==
    /\ Cardinality(DOMAIN commits) < MaxTreeCommits
    /\ \E tree \in Trees, ps \in ParentChoicesOrRoot :
          LET id == Cardinality(DOMAIN commits) + 1 IN
          /\ commits' = (id :> NewCommitTree(1, ps, tree)) @@ commits
          /\ head' = id
    /\ last' = NoOp("commit")
    /\ UNCHANGED cacheVars

\* one call of collect_commits
CollectTrees ==
    \E include_merges \in BOOLEAN, binary \in BOOLEAN :
        \E stats \in {CollectCommitsTrees(FullRange, include_merges, binary)} :
        /\ last' = Op("collect_trees", FullRange, include_merges, binary, TRUE,
                      stats, IdsOf(stats), DOMAIN commit_rows, NoFault)
        /\ UNCHANGED <<repoVars, cacheVars>>

NextTree == CommitTree \/ CollectTrees

SpecTree == InitTree /\ [][NextTree]_vars

\* the entry of a path in a tree, None when the tree does not hold the path
EntryOf(tree, path) ==
    IF path \in DOMAIN tree THEN Some(tree[path]) ELSE None

\* the file entry two trees give for one path: the line counts of the blob
\* that appears, of the blob that goes, or of the line diff of the two
FileBetween(old_tree, new_tree, path) ==
    LET old == EntryOf(old_tree, path)
        new == EntryOf(new_tree, path)
        is_binary == \/ IsSome(old) /\ IsBinaryObject(Unwrap(old))
                     \/ IsSome(new) /\ IsBinaryObject(Unwrap(new))
    IN IF is_binary THEN FileStats(path, 0, 0, TRUE)
       ELSE IF ~IsSome(old)
       THEN FileStats(path, Len(Unwrap(new).lines), 0, FALSE)
       ELSE IF ~IsSome(new)
       THEN FileStats(path, 0, Len(Unwrap(old).lines), FALSE)
       ELSE FileStats(path, ComputeLineDiff(Unwrap(old), Unwrap(new))[1],
                      ComputeLineDiff(Unwrap(old), Unwrap(new))[2], FALSE)

\* the file entries of the paths that differ between two trees
FilesBetween(old_tree, new_tree, binary) ==
    {f \in {FileBetween(old_tree, new_tree, p) :
              p \in {q \in Range(TreePaths) : Differs(old_tree, new_tree, q)}} :
        binary \/ ~f.is_binary}

\* C33: the stats of an included commit with parents are the diff of its
\* tree against the tree of its first parent only, whatever the trees of its
\* other parents are, and the stats of a root commit are the diff of its
\* tree against no tree.
C33_FirstParentDiff ==
    last.op = "collect_trees" =>
        \A i \in DOMAIN last.stats :
            LET s == last.stats[i]
                parents == commits[s.commit_id].parent_ids
                base == IF parents = <<>> THEN <<>> ELSE TreeOf(parents[1])
                files == FilesBetween(base, TreeOf(s.commit_id), last.binary)
            IN /\ Range(s.files) = files
               /\ Len(s.files) = Cardinality(files)

\* a walk that includes a root commit with a file and a merge whose second
\* parent has a tree that differs from the trees of the merge and of its
\* first parent, the merge changing a file
C33_Witness ==
    /\ last.op = "collect_trees"
    /\ \E i, j \in DOMAIN last.stats :
          LET m == last.stats[i].commit_id
              r == last.stats[j].commit_id
          IN /\ Len(commits[m].parent_ids) = 2
             /\ TreeOf(commits[m].parent_ids[2]) # TreeOf(commits[m].parent_ids[1])
             /\ TreeOf(commits[m].parent_ids[2]) # TreeOf(m)
             /\ last.stats[i].files # <<>>
             /\ commits[r].parent_ids = <<>>
             /\ last.stats[j].files # <<>>

-----------------------------------------------------------------------------
(* heat/fetch.rs: the result of a fetch and the history of the cache         *)

\* the fetch with the same arguments on a cache that holds nothing
OnEmptyCache(range, include_merges, binary) ==
    FetchCommitStats(<<>>, NoFiles, range, include_merges, binary, NoFault)

\* C34: a fetch returns the same set of commit stats as the fetch with the
\* same repository, range and flags on an empty cache, whatever earlier
\* fetches with other ranges or flags left in the cache.
C34_ResultIndependentOfCache ==
    (last.op = "fetch" /\ last.ok /\ last.at = "none") =>
        StatsSet(last.stats)
            = StatsSet(OnEmptyCache(last.range, last.include_merges,
                                    last.binary).stats)

\* C35: a fetch with include_merges = false returns no commit with more than
\* one parent, also when an earlier fetch with include_merges = true stored
\* merge commits of the range in the cache.
C35_NoMergeWithoutFlag ==
    (last.op = "fetch" /\ last.ok /\ ~last.include_merges) =>
        \A i \in DOMAIN last.stats :
            Len(commits[last.stats[i].commit_id].parent_ids) <= 1

-----------------------------------------------------------------------------
(* git/repo.rs: compute_line_diff, bounds and termination                   *)

\* the loop of compute_line_diff goes on until its condition fails or a
\* branch breaks out of it
SpecPureLive == InitPure /\ [][NextPure]_vars /\ WF_vars(DiffStep)

\* the cursors are inside the texts and the counts inside their lengths
DiffWithinBounds(old, new, d) ==
    /\ d.oi \in 0..Len(old)
    /\ d.ni \in 0..Len(new)
    /\ d.added \in 0..Len(new)
    /\ d.deleted \in 0..Len(old)

\* C36: for all texts old and new the line diff terminates; its cursors stay
\* within the texts, added <= length(new), deleted <= length(old), and at
\* the end added - deleted = length(new) - length(old).
C36_DiffBoundedAndBalanced ==
    /\ [](last.op = "compute_line_diff" =>
             DiffWithinBounds(last.old, last.new, last.d))
    /\ (last.op = "compute_line_diff") ~>
          /\ last.op = "compute_line_diff"
          /\ last.d.done
          /\ last.d.added - last.d.deleted = Len(last.new) - Len(last.old)

\* a finished diff of two texts of different lengths that counted added and
\* deleted lines and took a look-ahead match on its way
C36_Witness ==
    /\ last.op = "compute_line_diff"
    /\ last.d.done
    /\ Len(last.old) > Len(last.new)
    /\ Len(last.new) >= 2
    /\ last.d.added > 0
    /\ last.d.deleted > last.d.added
    /\ last.d.step = "rest_deleted"

-----------------------------------------------------------------------------
(* heat/fetch.rs, cache.rs: two fetches on one cache file                   *)

\* the two processes, each with a connection of its own to the cache file
Procs == {1, 2}

\* the locals of one fetch: where it is, what the cache returned, what it
\* computed
Proc(pc, cached_stats, missing_stats) ==
    [pc |-> pc, cached_stats |-> cached_stats, missing_stats |-> missing_stats]

\* two fetches with the same arguments, the rows of the cache file when they
\* were started, and the connection that holds the write lock of the file
Concurrent(range, include_merges, binary, cr, fr, lock, procs) ==
    [op |-> "concurrent", range |-> range, include_merges |-> include_merges,
     binary |-> binary, pre_cr |-> cr, pre_fr |-> fr, lock |-> lock,
     procs |-> procs]

\* fetch up to the store: the cached stats are read from the committed rows
\* and the missing commits are listed and computed
FetchRead(cr, fr, range, include_merges, binary) ==
    LET missing_ids == FetchMissing(cr, fr, range, include_merges)
        missing_stats == [i \in 1..Len(missing_ids) |->
                             ComputeCommitStatsFor(missing_ids[i], binary)]
    IN Proc(IF missing_stats = <<>> THEN "done" ELSE "read",
            GetCommitStats(cr, fr, range), missing_stats)

\* the store of fetch: the infos of the missing commits and
\* store_commit_stats on the committed rows
FetchStore(cr, fr, missing_stats, fail_at) ==
    StoreCommitStats(cr, fr, missing_stats,
                     [id \in IdsOf(missing_stats) |-> RepoGetCommitInfo(id)],
                     fail_at)

\* a fetch run alone before the two: what the cache holds when they start
Prefill == last.op # "concurrent" /\ Fetch

\* the two processes are started with the same arguments
ConcurrentStart ==
    /\ last.op # "concurrent"
    /\ \E range \in Ranges, include_merges \in BOOLEAN, binary \in BOOLEAN :
          last' = Concurrent(range, include_merges, binary, commit_rows,
                             file_rows, 0,
                             [p \in Procs |-> Proc("start", <<>>, <<>>)])
    /\ UNCHANGED <<repoVars, cacheVars>>

\* fetch.rs:26-45 of one process
ReadCache(p) ==
    /\ last.op = "concurrent"
    /\ last.procs[p].pc = "start"
    /\ last' = [last EXCEPT !.procs[p] =
                   FetchRead(commit_rows, file_rows, last.range,
                             last.include_merges, last.binary)]
    /\ UNCHANGED <<repoVars, cacheVars>>

\* the first statement of the transaction takes the write lock of the file
StoreBegin(p) ==
    /\ last.op = "concurrent"
    /\ last.procs[p].pc = "read"
    /\ last.lock = 0
    /\ last' = [last EXCEPT !.lock = p, !.procs[p].pc = "storing"]
    /\ UNCHANGED <<repoVars, cacheVars>>

\* the other connection holds the write lock for longer than the busy
\* timeout: the statement fails and fetch returns the error
StoreBusy(p) ==
    /\ last.op = "concurrent"
    /\ last.procs[p].pc = "read"
    /\ last.lock \notin {0, p}
    /\ last' = [last EXCEPT !.procs[p].pc = "failed"]
    /\ UNCHANGED <<repoVars, cacheVars>>

\* the rest of store_commit_stats: the statements, one of which may fail,
\* and tx.commit() or the rollback, which release the lock
StoreEnd(p) ==
    /\ last.op = "concurrent"
    /\ last.procs[p].pc = "storing"
    /\ \E fail_at \in {0, 1, StatementCount(commit_rows, file_rows,
                              last.procs[p].missing_stats,
                              [id \in IdsOf(last.procs[p].missing_stats) |->
                                  RepoGetCommitInfo(id)])} :
         \E r \in {FetchStore(commit_rows, file_rows,
                              last.procs[p].missing_stats, fail_at)} :
            /\ commit_rows' = r.cr
            /\ file_rows' = r.fr
            /\ last' = [last EXCEPT !.lock = 0,
                           !.procs[p].pc = IF r.ok THEN "done" ELSE "failed"]
    /\ UNCHANGED <<commits, head, has_tables, user_version>>

NextConcurrent ==
    \/ Prefill
    \/ ConcurrentStart
    \/ \E p \in Procs : ReadCache(p) \/ StoreBegin(p) \/ StoreBusy(p) \/ StoreEnd(p)

SpecConcurrent == Init /\ [][NextConcurrent]_vars

\* both fetches have returned
BothReturned ==
    /\ last.op = "concurrent"
    /\ \A p \in Procs : last.procs[p].pc \in {"done", "failed"}

\* C37: after two concurrent fetches with the same arguments on one cache
\* file, each store being one transaction, the cache holds each commit id
\* once, at most one file row for each commit id and path, and the rows a
\* single fetch would have stored (the rows it had before, when both
\* fetches failed).
C37_ConcurrentFetchesSameRows ==
    BothReturned =>
        LET single == FetchCommitStats(last.pre_cr, last.pre_fr, last.range,
                                       last.include_merges, last.binary,
                                       NoFault)
            stored == \E p \in Procs : last.procs[p].pc = "done"
        IN /\ commit_rows = IF stored THEN single.cr ELSE last.pre_cr
           /\ file_rows = IF stored THEN single.fr ELSE last.pre_fr
           /\ \A c \in DOMAIN commit_rows : commit_rows[c].id = c
           /\ \A c \in DOMAIN file_rows :
                 NoDuplicates([i \in DOMAIN file_rows[c] |->
                                  file_rows[c][i].path])

\* both fetches read the cache before either stored, computed the same
\* commits, one of them with two entries for one path, and both stored
C37_Witness ==
    /\ BothReturned
    /\ \A p \in Procs :
          /\ last.procs[p].pc = "done"
          /\ last.procs[p].cached_stats = <<>>
          /\ Len(last.procs[p].missing_stats) = 3
          /\ \E i \in 1..3 :
                ~NoDuplicates([j \in DOMAIN last.procs[p].missing_stats[i].files
                                  |-> last.procs[p].missing_stats[i].files[j].path])
    /\ DOMAIN commit_rows = {1, 2, 3}

-----------------------------------------------------------------------------
(* tui/events.rs, tui/events/input_modes.rs, tui/events/actions.rs: the     *)
(* key and mouse events of the dashboard                                    *)

\* the most characters typed into a search query or the path input
MaxTyped == 1

\* the commits the dashboard is run on, with the labels of their week and
\* month and the path they change; commit 2 is a merge
EventHistory ==
    <<[commit_id |-> 1, week |-> <<"w", "1">>, month |-> <<"m", "1">>,
       path |-> <<"a">>, merge |-> FALSE],
      [commit_id |-> 2, week |-> <<"w", "2">>, month |-> <<"m", "1">>,
       path |-> <<"b">>, merge |-> TRUE]>>

\* the period labels in ascending order
PeriodLabels ==
    <<(<<"m", "1">>), (<<"w", "1">>), (<<"w", "2">>)>>

\* what fetch returns to the dashboard: the commits the walk lists under the
\* merge flag, and the merges an earlier fetch left in the cache
FetchedHistory(include_merges, cached_merges) ==
    SelectSeq(EventHistory,
              LAMBDA c : ~c.merge \/ include_merges \/ cached_merges)

\* str::starts_with
StartsWith(str, prefix) ==
    Len(prefix) <= Len(str) /\ SubSeq(str, 1, Len(prefix)) = prefix

\* files_matching is not empty, or no prefix is given
PathMatches(c, path_prefix) ==
    ~IsSome(path_prefix) \/ StartsWith(c.path, Unwrap(path_prefix))

\* the period a commit is counted in
PeriodOf(c, monthly) == IF monthly THEN c.month ELSE c.week

\* aggregate_weeks with a path prefix: one entry for each period with a
\* commit that changes a matching file, in the order of the labels
AggregatePeriods(stats, path_prefix, monthly) ==
    LET counted == SelectSeq(stats, LAMBDA c : PathMatches(c, path_prefix))
        keys == {PeriodOf(counted[i], monthly) : i \in DOMAIN counted}
        labels == SelectSeq(PeriodLabels, LAMBDA l : l \in keys)
    IN [k \in 1..Len(labels) |->
           WeekStats(labels[k],
                     Cardinality({i \in DOMAIN counted :
                                     PeriodOf(counted[i], monthly) = labels[k]}),
                     <<>>)]

\* load_commit_details: the commits of the selected period, newest first
LoadDetails(v) ==
    IF v.selected >= Len(v.weeks) THEN v
    ELSE LET in_period == SelectSeq(v.stats, LAMBDA c :
                 /\ PathMatches(c, v.path_filter)
                 /\ PeriodOf(c, v.monthly_state) = v.weeks[v.selected + 1].week)
         IN [v EXCEPT
               !.commit_details =
                   [i \in 1..Len(in_period) |->
                      CommitDetail(
                        <<ToString(in_period[Len(in_period) + 1 - i].commit_id)>>,
                        <<>>, <<>>)],
               !.commit_selected = 0]

\* the locals of run and the fields of TuiState the events read and write
View(monthly, include_merges, cached_merges) ==
    [op |-> "run", key |-> "", running |-> TRUE,
     monthly_state |-> monthly, include_merges_state |-> include_merges,
     cached_merges |-> cached_merges \/ include_merges,
     stats |-> FetchedHistory(include_merges, cached_merges),
     weeks |-> LimitWeeks(AggregatePeriods(
                   FetchedHistory(include_merges, cached_merges), None,
                   monthly), monthly, FALSE),
     selected |-> 0, tab_index |-> 0, search_mode |-> FALSE,
     commit_search_mode |-> FALSE, path_mode |-> FALSE,
     search_query |-> <<>>, path_input |-> <<>>, path_filter |-> None,
     filtered_indices |-> AllIndices(Len(LimitWeeks(AggregatePeriods(
                   FetchedHistory(include_merges, cached_merges), None,
                   monthly), monthly, FALSE))),
     commit_details |-> <<>>, commit_selected |-> 0,
     commit_search_query |-> <<>>, commit_filtered_indices |-> <<>>,
     show_all |-> FALSE, last_refresh |-> None]

\* `state.view_mode == ViewMode::CommitDetails`: every turn of the event
\* loop sets view_mode from tab_index before it reads an event
InCommitDetails(v) == v.tab_index = 3

\* String::pop
Pop(str) == IF str = <<>> THEN str ELSE SubSeq(str, 1, Len(str) - 1)

\* str::trim
RECURSIVE Trim(_)
Trim(str) ==
    IF str = <<>> THEN str
    ELSE IF Head(str) = " " THEN Trim(Tail(str))
    ELSE IF str[Len(str)] = " " THEN Trim(Pop(str))
    ELSE str

\* the new period list of a handler that aggregates again
Reaggregated(v, stats, monthly) ==
    LimitWeeks(AggregatePeriods(stats, v.path_filter, monthly), monthly,
               v.show_all)

\* handle_search_input
HandleSearchInput(key, v) ==
    IF key.code = "Esc"
    THEN [v EXCEPT !.search_mode = FALSE, !.search_query = <<>>,
                   !.filtered_indices = AllIndices(Len(v.weeks))]
    ELSE IF key.code = "Enter"
    THEN ApplySearchFilter(v.weeks, [v EXCEPT !.search_mode = FALSE])
    ELSE IF key.code = "Backspace"
    THEN ApplySearchFilter(v.weeks, [v EXCEPT !.search_query = Pop(@)])
    ELSE IF key.code = "Char"
    THEN ApplySearchFilter(v.weeks,
                           [v EXCEPT !.search_query = Append(@, key.c)])
    ELSE v

\* handle_commit_search_input
HandleCommitSearchInput(key, v) ==
    IF key.code = "Esc"
    THEN [v EXCEPT !.commit_search_mode = FALSE,
                   !.commit_search_query = <<>>,
                   !.commit_filtered_indices =
                       AllIndices(Len(v.commit_details))]
    ELSE IF key.code = "Enter"
    THEN ApplyCommitSearchFilter([v EXCEPT !.commit_search_mode = FALSE])
    ELSE IF key.code = "Backspace"
    THEN ApplyCommitSearchFilter([v EXCEPT !.commit_search_query = Pop(@)])
    ELSE IF key.code = "Char"
    THEN ApplyCommitSearchFilter(
             [v EXCEPT !.commit_search_query = Append(@, key.c)])
    ELSE v

\* the Enter arm of handle_path_input: the filter is set, the periods are
\* aggregated again and the lists are reset
SubmitPath(v) ==
    LET trimmed == Trim(v.path_input)
        f == [v EXCEPT !.path_mode = FALSE,
                       !.path_filter = IF trimmed = <<>> THEN None
                                       ELSE Some(trimmed)]
        weeks == Reaggregated(f, f.stats, f.monthly_state)
    IN [f EXCEPT !.weeks = weeks,
                 !.filtered_indices = AllIndices(Len(weeks)),
                 !.commit_details = <<>>,
                 !.commit_selected = 0,
                 !.commit_filtered_indices = <<>>]

\* handle_path_input
HandlePathInput(key, v) ==
    IF key.code = "Esc"
    THEN [v EXCEPT !.path_mode = FALSE, !.path_input = <<>>]
    ELSE IF key.code = "Enter" THEN SubmitPath(v)
    ELSE IF key.code = "Backspace" THEN [v EXCEPT !.path_input = Pop(@)]
    ELSE IF key.code = "Char" THEN [v EXCEPT !.path_input = Append(@, key.c)]
    ELSE v

\* try_load_commit_details
TryLoadCommitDetails(v) ==
    IF InCommitDetails(v) \/ v.weeks = <<>> \/ v.selected >= Len(v.weeks)
    THEN v
    ELSE LET l == LoadDetails(v) IN
         [l EXCEPT !.commit_filtered_indices =
                       AllIndices(Len(l.commit_details)),
                   !.tab_index = 3]

\* the commit list after the load of toggle_monthly and toggle_show_all
ReloadDetails(v) ==
    IF v.weeks = <<>> THEN v
    ELSE LET l == LoadDetails(v) IN
         [l EXCEPT !.commit_filtered_indices =
                       AllIndices(Len(l.commit_details))]

\* should_throttle_refresh and, when it lets the refresh through, the new
\* last_refresh; elapsed is the time since the last accepted refresh
Refreshed(v) == [v EXCEPT !.last_refresh = Some(0)]

\* toggle_monthly
ToggleMonthlyView(v, elapsed) ==
    IF Throttled(v, elapsed) THEN v
    ELSE LET r == Refreshed(v)
             monthly == ~v.monthly_state
             weeks == Reaggregated(r, r.stats, monthly)
         IN ReloadDetails(ApplySearchFilter(weeks,
                [r EXCEPT !.monthly_state = monthly, !.weeks = weeks]))

\* toggle_merges; a failed fetch is returned as the error of the key event
ToggleMergesView(v, elapsed, fetch_ok) ==
    IF Throttled(v, elapsed) THEN v
    ELSE LET r == Refreshed(v)
             include_merges == ~v.include_merges_state
             stats == FetchedHistory(include_merges, v.cached_merges)
             weeks == Reaggregated(r, stats, r.monthly_state)
         IN IF ~fetch_ok
            THEN [r EXCEPT !.include_merges_state = include_merges,
                           !.running = FALSE]
            ELSE ApplySearchFilter(weeks,
                     [r EXCEPT !.include_merges_state = include_merges,
                               !.cached_merges = @ \/ include_merges,
                               !.stats = stats, !.weeks = weeks])

\* toggle_show_all
ToggleShowAll(v) ==
    LET s == [v EXCEPT !.show_all = ~@]
        weeks == IF s.show_all
                 THEN AggregatePeriods(s.stats, s.path_filter, s.monthly_state)
                 ELSE LimitWeeks(s.weeks, s.monthly_state, FALSE)
    IN ReloadDetails(ApplySearchFilter(weeks, [s EXCEPT !.weeks = weeks]))

\* the position of the selected commit in the filtered list, 0 when it is
\* not in the list
PositionOf(v) ==
    IF \E i \in DOMAIN v.commit_filtered_indices :
           v.commit_filtered_indices[i] = v.commit_selected
    THEN CHOOSE i \in DOMAIN v.commit_filtered_indices :
           /\ v.commit_filtered_indices[i] = v.commit_selected
           /\ \A j \in 1..(i - 1) :
                 v.commit_filtered_indices[j] # v.commit_selected
    ELSE 0

\* the commit list is searched and the search has matches
CommitsFiltered(v) ==
    v.commit_search_query # <<>> /\ v.commit_filtered_indices # <<>>

\* move_up
MoveUp(v) ==
    IF InCommitDetails(v)
    THEN IF v.commit_details = <<>> THEN v
         ELSE IF CommitsFiltered(v)
         THEN IF PositionOf(v) > 1
              THEN [v EXCEPT !.commit_selected =
                       v.commit_filtered_indices[PositionOf(v) - 1]]
              ELSE v
         ELSE [v EXCEPT !.commit_selected = SaturatingSub(@, 1)]
    ELSE IF v.selected > 0
    THEN EnsureSelectionInFiltered([v EXCEPT !.selected = @ - 1])
    ELSE v

\* move_down
MoveDown(v) ==
    IF InCommitDetails(v)
    THEN IF v.commit_details = <<>> THEN v
         ELSE IF CommitsFiltered(v)
         THEN IF PositionOf(v) > 0
                 /\ PositionOf(v) < Len(v.commit_filtered_indices)
              THEN [v EXCEPT !.commit_selected =
                       v.commit_filtered_indices[PositionOf(v) + 1]]
              ELSE v
         ELSE IF v.commit_selected + 1 < Len(v.commit_details)
         THEN [v EXCEPT !.commit_selected = @ + 1]
         ELSE v
    ELSE IF v.selected + 1 < Len(v.weeks)
    THEN EnsureSelectionInFiltered([v EXCEPT !.selected = @ + 1])
    ELSE v

\* jump_first and jump_home
JumpFirst(v, home) ==
    IF InCommitDetails(v)
    THEN [v EXCEPT !.commit_selected =
             IF home /\ CommitsFiltered(v) THEN v.commit_filtered_indices[1]
             ELSE 0]
    ELSE IF home THEN [v EXCEPT !.selected = 0]
    ELSE EnsureSelectionInFiltered([v EXCEPT !.selected = 0])

\* jump_last and jump_end
JumpLast(v, end) ==
    IF InCommitDetails(v)
    THEN [v EXCEPT !.commit_selected =
             IF end /\ CommitsFiltered(v)
             THEN v.commit_filtered_indices[Len(v.commit_filtered_indices)]
             ELSE SaturatingSub(Len(v.commit_details), 1)]
    ELSE IF end THEN [v EXCEPT !.selected = SaturatingSub(Len(v.weeks), 1)]
    ELSE EnsureSelectionInFiltered(
             [v EXCEPT !.selected = SaturatingSub(Len(v.weeks), 1)])

\* usize::min
Min(a, b) == IF a <= b THEN a ELSE b

\* the arms PageUp and PageDown
PageUp(v) ==
    [v EXCEPT !.selected = SaturatingSub(@, 10),
              !.commit_selected = SaturatingSub(@, 10)]
PageDown(v) ==
    [v EXCEPT !.selected = Min(@ + 10, SaturatingSub(Len(v.weeks), 1)),
              !.commit_selected =
                  Min(@ + 10, SaturatingSub(Len(v.commit_details), 1))]

\* the `match key_event.code` of handle_key_events, reached in normal mode
HandleNormalKey(key, v, elapsed, fetch_ok) ==
    CASE key.code = "Char" /\ key.c = "q" -> [v EXCEPT !.running = FALSE]
      [] key.code = "Char" /\ key.c = "/" ->
            [v EXCEPT !.search_mode = TRUE, !.search_query = <<>>]
      [] key.code = "Char" /\ key.c = ":" ->
            [v EXCEPT !.commit_search_mode = TRUE,
                      !.commit_search_query = <<>>]
      [] key.code = "Enter" -> TryLoadCommitDetails(v)
      [] key.code = "Char" /\ key.c = "p" ->
            [v EXCEPT !.path_mode = TRUE,
                      !.path_input = IF IsSome(v.path_filter)
                                     THEN Unwrap(v.path_filter) ELSE <<>>]
      [] key.code = "Char" /\ key.c = "m" -> ToggleMonthlyView(v, elapsed)
      [] key.code = "Char" /\ key.c = "M" ->
            ToggleMergesView(v, elapsed, fetch_ok)
      [] key.code = "Char" /\ key.c = "A" -> ToggleShowAll(v)
      [] key.code = "Tab" -> [v EXCEPT !.tab_index = (@ + 1) % 4]
      [] key.code = "BackTab" ->
            [v EXCEPT !.tab_index = IF @ = 0 THEN 3 ELSE @ - 1]
      [] key.code = "Up" -> MoveUp(v)
      [] key.code = "Down" -> MoveDown(v)
      [] key.code = "Char" /\ key.c = "g" -> JumpFirst(v, FALSE)
      [] key.code = "Char" /\ key.c = "G" -> JumpLast(v, FALSE)
      [] key.code = "Home" -> JumpFirst(v, TRUE)
      [] key.code = "End" -> JumpLast(v, TRUE)
      [] key.code = "PageUp" -> PageUp(v)
      [] key.code = "PageDown" -> PageDown(v)
      [] OTHER -> v

\* a dispatch that takes every key for a key of normal mode
ActiveModeNormal(v) == "normal"

\* the mode checks of handle_key_events, in their order
ActiveMode(v) ==
    IF v.search_mode THEN "search"
    ELSE IF v.commit_search_mode THEN "commit_search"
    ELSE IF v.path_mode THEN "path"
    ELSE "normal"

\* what is kept of the key pressed: Esc, Enter, the character q, or Other
KeyKept(key) ==
    IF key.code \in {"Esc", "Enter"} THEN key.code
    ELSE IF key.code = "Char" /\ key.c = "q" THEN "q"
    ELSE "Other"

\* handle_key_events for a key press
HandleKeyPress(key, v, elapsed, fetch_ok) ==
    LET mode == ActiveMode(v)
        w == [v EXCEPT !.op = "key", !.key = KeyKept(key)]
    IN IF mode = "search" THEN HandleSearchInput(key, w)
       ELSE IF mode = "commit_search" THEN HandleCommitSearchInput(key, w)
       ELSE IF mode = "path" THEN HandlePathInput(key, w)
       ELSE HandleNormalKey(key, w, elapsed, fetch_ok)

\* handle_mouse_event
HandleMouseEvent(kind, v) ==
    LET w == [v EXCEPT !.op = "mouse", !.key = "Mouse"] IN
    IF kind = "ScrollUp"
    THEN IF InCommitDetails(w)
         THEN [w EXCEPT !.commit_selected = SaturatingSub(@, 1)]
         ELSE IF w.selected > 0
         THEN EnsureSelectionInFiltered([w EXCEPT !.selected = @ - 1])
         ELSE w
    ELSE IF kind = "ScrollDown"
    THEN IF InCommitDetails(w)
         THEN IF w.commit_selected + 1 < Len(w.commit_details)
              THEN [w EXCEPT !.commit_selected = @ + 1] ELSE w
         ELSE IF w.selected + 1 < Len(w.weeks)
         THEN EnsureSelectionInFiltered([w EXCEPT !.selected = @ + 1])
         ELSE w
    ELSE IF ~InCommitDetails(w) /\ w.weeks # <<>> /\ w.selected < Len(w.weeks)
    THEN [LoadDetails(w) EXCEPT !.tab_index = 3]
    ELSE w

\* a key with a character, and one without
CharKey(c) == [code |-> "Char", c |-> c]
CodeKey(code) == [code |-> code, c |-> ""]

\* the keys pressed: in a mode, a character is typed while the text is
\* shorter than MaxTyped
KeysIn(v) ==
    {CodeKey(code) : code \in {"Esc", "Enter", "Backspace", "Tab", "BackTab",
                               "Up", "Down", "Home", "End", "PageUp",
                               "PageDown"}}
    \cup IF ActiveMode(v) = "normal"
         THEN {CharKey(c) : c \in {"q", "/", ":", "p", "m", "M", "A", "g",
                                   "G", "x"}}
         ELSE IF v.search_mode
         THEN {CharKey(c) : c \in IF Len(v.search_query) < MaxTyped
                                  THEN {"q", "1"} ELSE {}}
         ELSE IF v.commit_search_mode
         THEN {CharKey(c) : c \in IF Len(v.commit_search_query) < MaxTyped
                                  THEN {"q"} ELSE {}}
         ELSE {CharKey(c) : c \in IF Len(v.path_input) < MaxTyped
                                  THEN {"a", " "} ELSE {}}

\* run up to the event loop, on a cache that holds the merges or not
InitEvents ==
    /\ commits = MergeRepo
    /\ head = 3
    /\ has_tables = TRUE
    /\ user_version = SCHEMA_VERSION
    /\ commit_rows = <<>>
    /\ file_rows = NoFiles
    /\ last \in {View(monthly, include_merges, cached_merges) :
                    monthly \in BOOLEAN, include_merges \in BOOLEAN,
                    cached_merges \in BOOLEAN}

\* one key press read by the event loop
KeyPress ==
    /\ last.running
    /\ \E key \in KeysIn(last) :
          \E elapsed \in IF key.c \in {"m", "M"} THEN {0, ThrottleMillis}
                          ELSE {0},
             fetch_ok \in IF key.c = "M" THEN BOOLEAN ELSE {TRUE} :
             last' = HandleKeyPress(key, last, elapsed, fetch_ok)
    /\ UNCHANGED <<repoVars, cacheVars>>

\* one mouse event read by the event loop
Mouse ==
    /\ last.running
    /\ \E kind \in {"ScrollUp", "ScrollDown", "LeftDown"} :
          last' = HandleMouseEvent(kind, last)
    /\ UNCHANGED <<repoVars, cacheVars>>

NextEvents == KeyPress \/ Mouse

SpecEvents == InitEvents /\ [][NextEvents]_vars

\* C38: after any sequence of key and mouse events the selected period
\* index is smaller than the number of periods whenever the period list is
\* not empty.
C38_SelectionInsidePeriods ==
    (last.op \in {"key", "mouse"} /\ last.weeks # <<>>) =>
        last.selected < Len(last.weeks)

\* the number of input modes that are active
ModesActive(v) ==
    Cardinality({m \in {"search", "commit_search", "path"} :
                    \/ m = "search" /\ v.search_mode
                    \/ m = "commit_search" /\ v.commit_search_mode
                    \/ m = "path" /\ v.path_mode})

-----------------------------------------------------------------------------
(* model.rs: ChurnEntry::add_stats                                          *)

\* the most calls of add_stats made on one entry after its first state
MaxCalls == 2

\* unsigned integers are lists of 16-bit limbs, the lowest first: two limbs
\* for u32, four for u64
LimbBase == 2^16

\* the carry into limb i of the sum of a and b
RECURSIVE CarryInto(_, _, _)
CarryInto(a, b, i) ==
    IF i = 1 THEN 0
    ELSE (a[i - 1] + b[i - 1] + CarryInto(a, b, i - 1)) \div LimbBase

\* a + b computed without a limit of width
CheckedAdd(a, b) ==
    [i \in 1..(Len(a) + 1) |->
        IF i <= Len(a) THEN (a[i] + b[i] + CarryInto(a, b, i)) % LimbBase
        ELSE CarryInto(a, b, i)]

\* a + b in the width of a and b, modulo 2^width
WrappingAdd(a, b) ==
    [i \in DOMAIN a |-> (a[i] + b[i] + CarryInto(a, b, i)) % LimbBase]

\* the sum does not fit the width
Overflows(a, b) == CarryInto(a, b, Len(a) + 1) > 0

\* `x as u64` for a u32
AsU64(x) == x \o <<0, 0>>

\* a small number as a u32 and as a u64
U32(n) == <<n, 0>>
U64(n) == <<n, 0, 0, 0>>

\* `if self.authors.len() < 100`
AuthorsCap == 100

\* a ChurnEntry, the number of add_stats calls made on it, and whether the
\* last call panicked
ChurnEntry(added, deleted, total, commit_count, authors, calls) ==
    [op |-> "entry", added_lines |-> added, deleted_lines |-> deleted,
     total_lines |-> total, commit_count |-> commit_count,
     authors |-> authors, calls |-> calls, made |-> 0, panicked |-> FALSE]

\* `self.authors.insert` under the cap
InsertAuthor(authors, author) ==
    IF Cardinality(authors) < AuthorsCap THEN authors \cup {author}
    ELSE authors

\* ChurnEntry::add_stats. `stats.added_lines + stats.deleted_lines` is a sum
\* of two u32: when it overflows, a build with overflow checks panics at
\* that line and a build without them wraps
AddStats(entry, stats, author, overflow_checks) ==
    LET counted == [entry EXCEPT
                      !.op = "add_stats", !.calls = @ + 1, !.made = @ + 1,
                      !.added_lines = WrappingAdd(@, AsU64(stats.added_lines)),
                      !.deleted_lines =
                          WrappingAdd(@, AsU64(stats.deleted_lines))]
    IN IF Overflows(stats.added_lines, stats.deleted_lines) /\ overflow_checks
       THEN [counted EXCEPT !.panicked = TRUE]
       ELSE [counted EXCEPT
               !.total_lines =
                   WrappingAdd(@, AsU64(WrappingAdd(stats.added_lines,
                                                    stats.deleted_lines))),
               !.commit_count = @ + 1,
               !.authors = InsertAuthor(@, author)]

\* line counts of a file: 0, 1, 2^31 and 2^32 - 1
LineCounts == {U32(0), U32(1), <<0, 32768>>, <<65535, 65535>>}

\* an entry after n calls for files of one added and one deleted line by n
\* different authors
EntryAfter(n) == ChurnEntry(U64(n), U64(n), U64(2 * n), n, 1..n, n)

\* a new entry, or one with 99 or 100 authors
InitChurn ==
    /\ commits = MergeRepo
    /\ head = 3
    /\ has_tables = TRUE
    /\ user_version = SCHEMA_VERSION
    /\ commit_rows = <<>>
    /\ file_rows = NoFiles
    /\ last \in {EntryAfter(n) : n \in {0, AuthorsCap - 1, AuthorsCap}}

\* compute_churn calls add_stats for a file of a commit
AddStatsCall ==
    /\ last.made < MaxCalls
    /\ ~last.panicked
    /\ \E added \in LineCounts, deleted \in LineCounts,
          author \in {1, AuthorsCap + 1, AuthorsCap + 2},
          overflow_checks \in BOOLEAN :
          last' = AddStats(last, FileStats("a", added, deleted, FALSE),
                           author, overflow_checks)
    /\ UNCHANGED <<repoVars, cacheVars>>

NextChurn == AddStatsCall

SpecChurn == InitChurn /\ [][NextChurn]_vars

\* C40: after any sequence of add_stats calls total_lines equals
\* added_lines + deleted_lines, commit_count equals the number of calls and
\* the authors set holds at most 100 names, also when one file has
\* added_lines + deleted_lines >= 2^32.
C40_ChurnTotals ==
    last.op = "add_stats" =>
        /\ ~last.panicked
        /\ last.total_lines \o <<0>>
               = CheckedAdd(last.added_lines, last.deleted_lines)
        /\ last.commit_count = last.calls
        /\ Cardinality(last.authors) <= AuthorsCap

=============================================================================
